---------------------------- MODULE Spec2Model ----------------------------
(***************************************************************************)
(* The point-get fast path of the planner (planner/core/point_get_plan.go) *)
(* as a state machine: a parsed statement, its table metadata and the      *)
(* session context are the inputs, TryFastPlan is applied to them in one   *)
(* step, and the plan it returns, the privilege verifications it requested *)
(* and the statement context it left behind are the outputs.               *)
(***************************************************************************)
EXTENDS Integers, Sequences, FiniteSets, TLC

VARIABLES
    node,       \* the ast.Node handed to TryFastPlan
    ctx,        \* the sessionctx.Context: session variables, StmtCtx, privilege manager
    plan,       \* the Plan TryFastPlan returned (Nil before the call, Panic if it crashed)
    verified,   \* the RequestVerification calls made, in order
    pc          \* "ready" before TryFastPlan runs, "done" after

vars == <<node, ctx, plan, verified, pc>>

-----------------------------------------------------------------------------
(* Bounds of the model. *)

\* Width in bits of the row handle (Handle int64) and of the integer key type.
HandleBits == 3
\* Longest IN list.
MaxInList == 2

-----------------------------------------------------------------------------
(* Values shared by the definitions below. *)

\* Go's nil, for every pointer, interface and slice the code tests against nil.
Nil == [type |-> "nil"]

\* The plan value standing for a run-time panic inside TryFastPlan.
Panic == [type |-> "panic"]

\* A non-nil Go slice holding the sequence s.
Slice(s) == [type |-> "slice", elems |-> s]

Range(s) == {s[i] : i \in DOMAIN s}

MinInt  == -(2 ^ (HandleBits - 1))
MaxInt  == 2 ^ (HandleBits - 1) - 1
MaxUint == 2 ^ HandleBits - 1

\* int64(x) of a value that fits the unsigned range: the two's complement reading.
ToInt64(x) == IF x > MaxInt THEN x - 2 ^ HandleBits ELSE x

\* uint64(h) of a handle.
ToUint64(h) == IF h < 0 THEN h + 2 ^ HandleBits ELSE h

-----------------------------------------------------------------------------
(* types.Datum and its conversions.  A datum is [kind, num]:                *)
(*   "null"  the zero Datum (KindNull);                                      *)
(*   "int"   an integer literal, num its value;                              *)
(*   "dec"   a decimal literal, num twice its value (odd: a fraction .5),    *)
(*           whose conversion to an integer drops the scale (truncation);    *)
(*   "str"   a string literal made of the integer num and trailing text;     *)
(*   "time"  a literal with no conversion to an integer.                     *)

NullDatum == [kind |-> "null", num |-> 0]
IntDatum(n) == [kind |-> "int", num |-> n]
DecDatum(h) == [kind |-> "dec", num |-> h]
StrDatum(n) == [kind |-> "str", num |-> n]
TimeDatum == [kind |-> "time", num |-> 0]

\* The field type of an integer key column, named by its unsigned flag.
InRange(n, unsigned) ==
    IF unsigned THEN n >= 0 /\ n <= MaxUint ELSE n >= MinInt /\ n <= MaxInt

\* Half a decimal, rounded half away from zero.
RoundHalf(h) == IF h >= 0 THEN (h + 1) \div 2 ELSE -((-h + 1) \div 2)

\* Datum.ConvertTo(sc, fieldType) for an integer field type: [err, val].
\* err is "nil", "overflow" (types.ErrOverflow), "truncated"
\* (types.ErrTruncatedWrongVal) or "other".
ConvertTo(d, unsigned, ignoreTruncate) ==
    CASE d.kind = "int" ->
            IF InRange(d.num, unsigned) THEN [err |-> "nil", val |-> d.num]
            ELSE [err |-> "overflow", val |-> 0]
      [] d.kind = "dec" ->
            IF ~InRange(RoundHalf(d.num), unsigned) THEN [err |-> "overflow", val |-> 0]
            ELSE [err |-> "truncated", val |-> RoundHalf(d.num)]
      [] d.kind = "str" ->
            IF ~InRange(d.num, unsigned) THEN [err |-> "overflow", val |-> 0]
            ELSE [err |-> IF ignoreTruncate THEN "nil" ELSE "truncated", val |-> d.num]
      [] OTHER -> [err |-> "other", val |-> 0]

\* intDatum.CompareDatum(sc, &value) for the converted integer n: [err, cmp].
CompareDatum(n, d, ignoreTruncate) ==
    CASE d.kind = "int" -> [err |-> FALSE, cmp |-> IF n = d.num THEN 0 ELSE 1]
      [] d.kind = "dec" -> [err |-> FALSE, cmp |-> IF 2 * n = d.num THEN 0 ELSE 1]
      [] d.kind = "str" ->
            IF ignoreTruncate THEN [err |-> FALSE, cmp |-> IF n = d.num THEN 0 ELSE 1]
            ELSE [err |-> TRUE, cmp |-> 0]
      [] OTHER -> [err |-> TRUE, cmp |-> 0]

-----------------------------------------------------------------------------
(* The AST nodes the planner inspects. *)

ColumnNameExpr(table, name) == [type |-> "ColumnNameExpr", Table |-> table, Name |-> name]
ValueExpr(d) == [type |-> "ValueExpr", Datum |-> d]
ParamMarkerExpr(d, order) == [type |-> "ParamMarkerExpr", Datum |-> d, Order |-> order]
BinaryOperationExpr(op, l, r) == [type |-> "BinaryOperationExpr", Op |-> op, L |-> l, R |-> r]
PatternInExpr(expr, list, not) ==
    [type |-> "PatternInExpr", Expr |-> expr, List |-> list, Not |-> not]
RowExpr(values) == [type |-> "RowExpr", Values |-> values]

-----------------------------------------------------------------------------
(* nameValuePair and the predicate extractor. *)

nameValuePair(colName, value, param) ==
    [colName |-> colName, value |-> value, param |-> param]

\* The zero nameValuePair.
ZeroPair == nameValuePair("", NullDatum, Nil)

\* ValueSide taking what is neither a value nor a parameter for the integer 0.
ValueSideOfAnything(x) ==
    CASE x.type = "ValueExpr" -> [d |-> x.Datum, param |-> Nil]
      [] x.type = "ParamMarkerExpr" -> [d |-> x.Datum, param |-> x]
      [] OTHER -> [d |-> IntDatum(0), param |-> Nil]

\* The datum and parameter of the value side of an equality (the type switch
\* of getNameValuePairs): anything but a value or a parameter leaves the zero Datum.
ValueSide(x) ==
    CASE x.type = "ValueExpr" -> [d |-> x.Datum, param |-> Nil]
      [] x.type = "ParamMarkerExpr" -> [d |-> x.Datum, param |-> x]
      [] OTHER -> [d |-> NullDatum, param |-> Nil]

\* getNameValuePairs: Nil, or the pairs of expr appended to nvPairs (a sequence).
\* A non-nil result is wrapped as a Slice so that it can be told from Nil.
RECURSIVE getNameValuePairs(_, _, _)
getNameValuePairs(nvPairs, tblName, expr) ==
    IF expr.type # "BinaryOperationExpr" THEN Nil
    ELSE IF expr.Op = "LogicAnd" THEN
        LET left == getNameValuePairs(nvPairs, tblName, expr.L) IN
        IF left = Nil THEN Nil
        ELSE getNameValuePairs(left.elems, tblName, expr.R)
    ELSE IF expr.Op = "EQ" THEN
        IF expr.L.type # "ColumnNameExpr" /\ expr.R.type # "ColumnNameExpr" THEN Nil
        ELSE
            LET colName == IF expr.L.type = "ColumnNameExpr" THEN expr.L ELSE expr.R
                side == IF expr.L.type = "ColumnNameExpr"
                        THEN ValueSide(expr.R) ELSE ValueSide(expr.L)
            IN  IF side.d.kind = "null" THEN Nil
                ELSE IF colName.Table # "" /\ colName.Table # tblName THEN Nil
                ELSE Slice(Append(nvPairs, nameValuePair(colName.Name, side.d, side.param)))
    ELSE Nil

\* findInPairs: the first position of colName in pairs (from 1), or -1.
findInPairs(colName, pairs) ==
    LET hits == {i \in DOMAIN pairs : pairs[i].colName = colName} IN
    IF hits = {} THEN -1 ELSE CHOOSE i \in hits : \A j \in hits : i <= j

-----------------------------------------------------------------------------
(* The access-path matcher. *)

\* The positions of the columns of tblInfo that carry the primary-key flag.
PriKeyCols(tblInfo) == {i \in DOMAIN tblInfo.Columns : tblInfo.Columns[i].PriKey}

\* findPKHandle: [handlePair, fieldType]; fieldType is the key column or Nil.
findPKHandle(tblInfo, pairs) ==
    IF ~tblInfo.PKIsHandle \/ PriKeyCols(tblInfo) = {}
    THEN [handlePair |-> ZeroPair, fieldType |-> Nil]
    ELSE
        LET first == CHOOSE i \in PriKeyCols(tblInfo) : \A j \in PriKeyCols(tblInfo) : i <= j
            col == tblInfo.Columns[first]
            i == findInPairs(col.Name, pairs)
        IN  IF i = -1 THEN [handlePair |-> ZeroPair, fieldType |-> Nil]
            ELSE [handlePair |-> pairs[i], fieldType |-> col]

\* getIndexValues taking the values in the order the predicate gives them.
getIndexValuesAsWritten(idxInfo, pairs) ==
    IF Len(idxInfo.Columns) # Len(pairs) THEN Nil
    ELSE IF idxInfo.HasPrefixIndex THEN Nil
    ELSE IF \E k \in DOMAIN idxInfo.Columns : findInPairs(idxInfo.Columns[k], pairs) = -1
    THEN Nil
    ELSE IF Len(idxInfo.Columns) = 0 THEN Nil
    ELSE [idxValues |-> [k \in DOMAIN pairs |-> pairs[k].value],
          idxValueParams |-> [k \in DOMAIN pairs |-> pairs[k].param]]

\* getIndexValues without the comparison of the two lengths (lines 537-539).
getIndexValuesUncounted(idxInfo, pairs) ==
    IF idxInfo.HasPrefixIndex THEN Nil
    ELSE IF \E k \in DOMAIN idxInfo.Columns : findInPairs(idxInfo.Columns[k], pairs) = -1
    THEN Nil
    ELSE IF Len(idxInfo.Columns) = 0 THEN Nil
    ELSE [idxValues |->
              [k \in DOMAIN idxInfo.Columns |->
                  pairs[findInPairs(idxInfo.Columns[k], pairs)].value],
          idxValueParams |->
              [k \in DOMAIN idxInfo.Columns |->
                  pairs[findInPairs(idxInfo.Columns[k], pairs)].param]]

\* getIndexValues without the test of HasPrefixIndex (lines 541-543).
getIndexValuesPrefixToo(idxInfo, pairs) ==
    IF Len(idxInfo.Columns) # Len(pairs) THEN Nil
    ELSE IF \E k \in DOMAIN idxInfo.Columns : findInPairs(idxInfo.Columns[k], pairs) = -1
    THEN Nil
    ELSE IF Len(idxInfo.Columns) = 0 THEN Nil
    ELSE [idxValues |->
              [k \in DOMAIN idxInfo.Columns |->
                  pairs[findInPairs(idxInfo.Columns[k], pairs)].value],
          idxValueParams |->
              [k \in DOMAIN idxInfo.Columns |->
                  pairs[findInPairs(idxInfo.Columns[k], pairs)].param]]

\* getIndexValues: Nil, or [idxValues, idxValueParams] in the index's column order.
getIndexValues(idxInfo, pairs) ==
    IF Len(idxInfo.Columns) # Len(pairs) THEN Nil
    ELSE IF idxInfo.HasPrefixIndex THEN Nil
    ELSE IF \E k \in DOMAIN idxInfo.Columns : findInPairs(idxInfo.Columns[k], pairs) = -1
    THEN Nil
    ELSE IF Len(idxInfo.Columns) = 0 THEN Nil
    ELSE [idxValues |->
              [k \in DOMAIN idxInfo.Columns |->
                  pairs[findInPairs(idxInfo.Columns[k], pairs)].value],
          idxValueParams |->
              [k \in DOMAIN idxInfo.Columns |->
                  pairs[findInPairs(idxInfo.Columns[k], pairs)].param]]

-----------------------------------------------------------------------------
(* The schema projector. *)

\* The hidden row-id column (model.NewExtraHandleColInfo, model.ExtraHandleName).
ExtraHandleName == "_tidb_rowid"
ExtraHandleColInfo ==
    [Name |-> ExtraHandleName, ID |-> -1, PriKey |-> TRUE, Unsigned |-> FALSE,
     Generated |-> FALSE, State |-> "public"]

\* colInfoToColumn: the expression.Column of col at output position idx (from 0).
colInfoToColumn(db, origTblName, tblName, asName, col, idx) ==
    [ColName |-> asName, OrigTblName |-> origTblName, DBName |-> db,
     TblName |-> tblName, ID |-> col.ID, Index |-> idx]

\* findCol: the table column named by a ColumnNameExpr, or Nil.
findCol(tbl, colName) ==
    LET hits == {i \in DOMAIN tbl.Columns : tbl.Columns[i].Name = colName.Name} IN
    IF hits = {} THEN Nil
    ELSE tbl.Columns[CHOOSE i \in hits : \A j \in hits : i <= j]

\* All the columns of tbl appended to columns (the wildcard and the empty field list).
RECURSIVE AppendTableColumns(_, _, _, _, _)
AppendTableColumns(columns, dbName, tbl, tblName, k) ==
    IF k > Len(tbl.Columns) THEN columns
    ELSE AppendTableColumns(
            Append(columns, colInfoToColumn(dbName, tbl.Name, tblName,
                                            tbl.Columns[k].Name, tbl.Columns[k], Len(columns))),
            dbName, tbl, tblName, k + 1)

\* The loop over the select fields of buildSchemaFromFields, from field k on:
\* Nil as soon as a field does not resolve, else the Slice of columns.
RECURSIVE SchemaOfFields(_, _, _, _, _, _)
SchemaOfFields(columns, dbName, tbl, tblName, fields, k) ==
    IF k > Len(fields) THEN Slice(columns)
    ELSE
        LET field == fields[k] IN
        IF field.WildCard # Nil THEN
            IF field.WildCard.Table # "" /\ field.WildCard.Table # tblName THEN Nil
            ELSE SchemaOfFields(AppendTableColumns(columns, dbName, tbl, tblName, 1),
                                dbName, tbl, tblName, fields, k + 1)
        ELSE IF field.Expr.type # "ColumnNameExpr" THEN Nil
        ELSE IF field.Expr.Table # "" /\ field.Expr.Table # tblName THEN Nil
        ELSE
            LET col == findCol(tbl, field.Expr) IN
            IF col = Nil THEN Nil
            ELSE
                LET asName == IF field.AsName # "" THEN field.AsName ELSE col.Name IN
                SchemaOfFields(
                    Append(columns, colInfoToColumn(dbName, tbl.Name, tblName,
                                                    asName, col, Len(columns))),
                    dbName, tbl, tblName, fields, k + 1)

\* buildSchemaFromFields: Nil, or the expression.Schema [Columns].
buildSchemaFromFields(c, dbName0, tbl, tblName, fields) ==
    LET dbName == IF dbName0 = "" THEN c.CurrentDB ELSE dbName0 IN
    IF Len(fields) > 0 THEN
        LET cols == SchemaOfFields(<<>>, dbName, tbl, tblName, fields, 1) IN
        IF cols = Nil THEN Nil ELSE [type |-> "Schema", Columns |-> cols.elems]
    ELSE [type |-> "Schema",
          Columns |-> AppendTableColumns(<<>>, dbName, tbl, tblName, 1)]

\* getSingleTableNameAndAlias without the test of the right side of the join.
getSingleTableNameAndAliasOfLeft(tableRefs) ==
    IF tableRefs = Nil \/ tableRefs.TableRefs = Nil THEN [tblName |-> Nil, tblAlias |-> ""]
    ELSE IF tableRefs.TableRefs.Left.type # "TableSource"
    THEN [tblName |-> Nil, tblAlias |-> ""]
    ELSE IF tableRefs.TableRefs.Left.Source.type # "TableName"
    THEN [tblName |-> Nil, tblAlias |-> ""]
    ELSE
        LET tblSrc == tableRefs.TableRefs.Left IN
        [tblName |-> tblSrc.Source,
         tblAlias |-> IF tblSrc.AsName = "" THEN tblSrc.Source.Name ELSE tblSrc.AsName]

\* getSingleTableNameAndAlias: [tblName, tblAlias]; tblName is Nil unless the
\* FROM clause is one plain table.
getSingleTableNameAndAlias(tableRefs) ==
    IF tableRefs = Nil \/ tableRefs.TableRefs = Nil THEN [tblName |-> Nil, tblAlias |-> ""]
    ELSE IF tableRefs.TableRefs.Right # Nil THEN [tblName |-> Nil, tblAlias |-> ""]
    ELSE IF tableRefs.TableRefs.Left.type # "TableSource"
    THEN [tblName |-> Nil, tblAlias |-> ""]
    ELSE IF tableRefs.TableRefs.Left.Source.type # "TableName"
    THEN [tblName |-> Nil, tblAlias |-> ""]
    ELSE
        LET tblSrc == tableRefs.TableRefs.Left IN
        [tblName |-> tblSrc.Source,
         tblAlias |-> IF tblSrc.AsName = "" THEN tblSrc.Source.Name ELSE tblSrc.AsName]

-----------------------------------------------------------------------------
(* The plan builder. *)

\* newPointGetPlan without the assignment to StmtCtx.Tables (line 384).
newPointGetPlanOnly(c, schema, dbName, tbl) ==
    [p |-> [type |-> "PointGetPlan", schema |-> schema, DBName |-> dbName,
            TblInfo |-> tbl, IndexInfo |-> Nil, Handle |-> 0, HandleParam |-> Nil,
            IndexValues |-> <<>>, IndexValueParams |-> <<>>,
            UnsignedHandle |-> FALSE, IsTableDual |-> FALSE,
            Lock |-> FALSE, IsForUpdate |-> FALSE],
     ctx |-> c]

\* newPointGetPlan: [p, ctx]: the new plan, and the context with StmtCtx.Tables set.
newPointGetPlan(c, schema, dbName, tbl) ==
    [p |-> [type |-> "PointGetPlan", schema |-> schema, DBName |-> dbName,
            TblInfo |-> tbl, IndexInfo |-> Nil, Handle |-> 0, HandleParam |-> Nil,
            IndexValues |-> <<>>, IndexValueParams |-> <<>>,
            UnsignedHandle |-> FALSE, IsTableDual |-> FALSE,
            Lock |-> FALSE, IsForUpdate |-> FALSE],
     ctx |-> [c EXCEPT !.StmtCtxTables = <<[DB |-> c.CurrentDB, Table |-> tbl.Name]>>]]

\* pm.RequestVerification(activeRoles, db, table, "", priv).
RequestVerification(pm, db, table, priv) ==
    [db |-> db, table |-> table, priv |-> priv] \notin pm.denied

\* The loop of checkFastPlanPrivilege from checkTypes[k] on: the requests made
\* (reqs) and whether one was denied (err).
RECURSIVE VerifyFrom(_, _, _, _, _)
VerifyFrom(c, dbName, fastPlan, checkTypes, k) ==
    IF k > Len(checkTypes) THEN [err |-> FALSE, reqs |-> <<>>]
    ELSE
        LET req == [db |-> dbName, table |-> fastPlan.TblInfo.Name, priv |-> checkTypes[k]] IN
        IF ~RequestVerification(c.pm, dbName, fastPlan.TblInfo.Name, checkTypes[k])
        THEN [err |-> TRUE, reqs |-> <<req>>]
        ELSE LET rest == VerifyFrom(c, dbName, fastPlan, checkTypes, k + 1) IN
             [err |-> rest.err, reqs |-> <<req>> \o rest.reqs]

\* checkFastPlanPrivilege verifying the first of checkTypes only.
checkFastPlanPrivilegeFirst(c, fastPlan, checkTypes) ==
    IF c.pm = Nil THEN [err |-> FALSE, reqs |-> <<>>]
    ELSE VerifyFrom(c, c.CurrentDB, fastPlan, <<checkTypes[1]>>, 1)

\* checkFastPlanPrivilege: [err, reqs].
checkFastPlanPrivilege(c, fastPlan, checkTypes) ==
    IF c.pm = Nil THEN [err |-> FALSE, reqs |-> <<>>]
    ELSE VerifyFrom(c, c.CurrentDB, fastPlan, checkTypes, 1)

\* SetHandle with line 348 left out: the unsigned flag of the key is not copied.
SetHandleSigned(p, intDatum, fieldType, handlePair) ==
    [p EXCEPT !.Handle = ToInt64(intDatum),
              !.HandleParam = handlePair.param]

\* The last lines of the handle branch: the converted value becomes the handle.
SetHandle(p, intDatum, fieldType, handlePair) ==
    [p EXCEPT !.Handle = ToInt64(intDatum),
              !.UnsignedHandle = fieldType.Unsigned,
              !.HandleParam = handlePair.param]

\* ReconcileHandle treating an overflow like any other conversion error: no plan.
ReconcileHandleNoOverflow(np, handlePair, fieldType, conv, cmp) ==
    IF conv.err # "nil" /\ conv.err # "truncated"
    THEN [fp |-> Nil, ctx |-> np.ctx]
    ELSE IF cmp.err THEN [fp |-> Nil, ctx |-> np.ctx]
    ELSE IF cmp.cmp # 0
    THEN [fp |-> [np.p EXCEPT !.IsTableDual = TRUE], ctx |-> np.ctx]
    ELSE [fp |-> SetHandle(np.p, conv.val, fieldType, handlePair), ctx |-> np.ctx]

\* The handle branch of tryPointGetPlan from the conversion of the value on:
\* conv is what ConvertTo returned and cmp what CompareDatum returned.
ReconcileHandle(np, handlePair, fieldType, conv, cmp) ==
    IF conv.err = "overflow"
    THEN [fp |-> [np.p EXCEPT !.IsTableDual = TRUE], ctx |-> np.ctx]
    ELSE IF conv.err # "nil" /\ conv.err # "truncated"
    THEN [fp |-> Nil, ctx |-> np.ctx]
    ELSE IF cmp.err THEN [fp |-> Nil, ctx |-> np.ctx]
    ELSE IF cmp.cmp # 0
    THEN [fp |-> [np.p EXCEPT !.IsTableDual = TRUE], ctx |-> np.ctx]
    ELSE [fp |-> SetHandle(np.p, conv.val, fieldType, handlePair), ctx |-> np.ctx]

\* The handle branch of tryPointGetPlan from the new plan np on.
ConvertHandle(c, np, handlePair, fieldType, conv) ==
    ReconcileHandle(np, handlePair, fieldType, conv,
                    CompareDatum(conv.val, handlePair.value, c.IgnoreTruncate))

\* The handle branch of tryPointGetPlan from the schema on.
HandleWithSchema(c, schema, tbl, dbName, handlePair, fieldType) ==
    IF schema = Nil THEN [fp |-> Nil, ctx |-> c]
    ELSE ConvertHandle(c, newPointGetPlan(c, schema, dbName, tbl), handlePair, fieldType,
                       ConvertTo(handlePair.value, fieldType.Unsigned, c.IgnoreTruncate))

\* The handle branch of tryPointGetPlan (a single pair on the integer primary key).
HandlePlan(c, selStmt, tblName, tblAlias, tbl, dbName, handlePair, fieldType) ==
    HandleWithSchema(c, buildSchemaFromFields(c, tblName.Schema, tbl, tblAlias, selStmt.Fields),
                     tbl, dbName, handlePair, fieldType)

\* MatchingIndices without the tests of Unique and State (lines 354-359).
MatchingIndicesOfAnyKind(tbl, pairs) ==
    {i \in DOMAIN tbl.Indices : getIndexValues(tbl.Indices[i], pairs) # Nil}

\* The positions of the indices the loop of tryPointGetPlan does not skip.
MatchingIndices(tbl, pairs) ==
    {i \in DOMAIN tbl.Indices :
        /\ tbl.Indices[i].Unique
        /\ tbl.Indices[i].State = "public"
        /\ getIndexValues(tbl.Indices[i], pairs) # Nil}

\* The index branch of tryPointGetPlan: the first index that matches decides.
IndexPlan(c, selStmt, tblName, tblAlias, tbl, dbName, pairs) ==
    LET match == MatchingIndices(tbl, pairs) IN
    IF match = {} THEN [fp |-> Nil, ctx |-> c]
    ELSE
        LET i == CHOOSE i \in match : \A j \in match : i <= j
            idxInfo == tbl.Indices[i]
            vals == getIndexValues(idxInfo, pairs)
            schema == buildSchemaFromFields(c, tblName.Schema, tbl, tblAlias, selStmt.Fields)
        IN  IF schema = Nil THEN [fp |-> Nil, ctx |-> c]
            ELSE
                LET np == newPointGetPlan(c, schema, dbName, tbl) IN
                [fp |-> [np.p EXCEPT !.IndexInfo = idxInfo,
                                     !.IndexValues = vals.idxValues,
                                     !.IndexValueParams = vals.idxValueParams],
                 ctx |-> np.ctx]

\* LimitRejects without the test of the offset.
LimitRejectsCountOnly(limit) == limit.Err \/ limit.Count = 0

\* extractLimitCountOffset fails, or the limit is not "at least one row from the first".
LimitRejects(limit) == limit.Err \/ limit.Count = 0 \/ limit.Offset > 0

\* Whether a column bars the table from the fast path.
ColumnRejects(col) == col.Generated \/ col.State # "public"

\* tryPointGetPlan: [fp, ctx]; fp is Nil when the statement is not a point get.
tryPointGetPlan(c, selStmt) ==
    IF selStmt.Having # Nil THEN [fp |-> Nil, ctx |-> c]
    ELSE IF selStmt.Limit # Nil /\ LimitRejects(selStmt.Limit) THEN [fp |-> Nil, ctx |-> c]
    ELSE
        LET ta == getSingleTableNameAndAlias(selStmt.From)
            tblName == ta.tblName
            tblAlias == ta.tblAlias
        IN
        IF tblName = Nil THEN [fp |-> Nil, ctx |-> c]
        ELSE IF tblName.TableInfo = Nil THEN [fp |-> Nil, ctx |-> c]
        ELSE
            LET tbl == tblName.TableInfo
                dbName == IF tblName.Schema = "" THEN c.CurrentDB ELSE tblName.Schema
            IN
            IF tbl.Partition # Nil THEN [fp |-> Nil, ctx |-> c]
            ELSE IF \E k \in DOMAIN tbl.Columns : ColumnRejects(tbl.Columns[k])
            THEN [fp |-> Nil, ctx |-> c]
            ELSE
                LET pairs == getNameValuePairs(<<>>, tblAlias, selStmt.Where) IN
                IF pairs = Nil THEN [fp |-> Nil, ctx |-> c]
                ELSE
                    LET h == findPKHandle(tbl, pairs.elems) IN
                    IF h.handlePair.value.kind # "null" /\ Len(pairs.elems) = 1
                    THEN HandlePlan(c, selStmt, tblName, tblAlias, tbl, dbName,
                                    h.handlePair, h.fieldType)
                    ELSE IndexPlan(c, selStmt, tblName, tblAlias, tbl, dbName, pairs.elems)

-----------------------------------------------------------------------------
(* The statement adapters. *)

\* The SelectStmt the batch adapter re-plans for one IN candidate: only the
\* options, DISTINCT, FROM and the field list are copied.
ReusedStmt(selStmt, where) ==
    [type |-> "SelectStmt", Distinct |-> selStmt.Distinct, From |-> selStmt.From,
     Fields |-> selStmt.Fields, Where |-> where, OrderBy |-> Nil, GroupBy |-> Nil,
     Limit |-> Nil, Having |-> Nil, WindowSpecs |-> <<>>, LockTp |-> "SelectLockNone"]

\* The SelectStmt an UPDATE or DELETE is rewritten to.
MutationSelect(stmt) ==
    [type |-> "SelectStmt", Distinct |-> FALSE, From |-> stmt.TableRefs,
     Fields |-> <<>>, Where |-> stmt.Where, OrderBy |-> stmt.Order, GroupBy |-> Nil,
     Limit |-> stmt.Limit, Having |-> Nil, WindowSpecs |-> <<>>, LockTp |-> "SelectLockNone"]

\* The conjunction left[1] = right[1] AND ... AND left[n] = right[n], built
\* left to right as the RowExpr case of tryWhereIn2BatchPointGet builds it.
RECURSIVE RowWhere(_, _, _)
RowWhere(left, right, n) ==
    IF n = 1 THEN BinaryOperationExpr("EQ", left[1], right[1])
    ELSE BinaryOperationExpr("LogicAnd", RowWhere(left, right, n - 1),
                             BinaryOperationExpr("EQ", left[n], right[n]))

\* The WHERE of the rewrite for one candidate row of the IN list, or Nil when
\* the row does not fit the left side.
CandidateWhere(in, row) ==
    IF in.Expr.type = "ColumnNameExpr" THEN BinaryOperationExpr("EQ", in.Expr, row)
    ELSE IF row.type # "RowExpr" THEN Nil
    ELSE IF Len(row.Values) # Len(in.Expr.Values) THEN Nil
    ELSE RowWhere(in.Expr.Values, row.Values, Len(in.Expr.Values))

\* The estimated row count of a plan.
StatsCount(p) == IF p.type = "PointGetPlan" THEN 1 ELSE 0

\* A result [plan, ctx, reqs] with the earlier requests reqs put before its own.
AfterRequests(reqs, r) == [r EXCEPT !.reqs = reqs \o @]

\* PhysicalTableDual{}.Init(ctx, &property.StatsInfo{}) with the given schema.
PhysicalTableDual(schema) ==
    [type |-> "PhysicalTableDual", schema |-> schema, RowCount |-> 0]

\* SelectLock without the test of the session: FOR UPDATE always locks.
SelectLockAlways(c, x, fp) ==
    IF x.LockTp = "SelectLockForUpdate"
    THEN [fp EXCEPT !.Lock = TRUE, !.IsForUpdate = TRUE]
    ELSE fp

\* The lock flags TryFastPlan sets on the plan of a SELECT.
SelectLock(c, x, fp) ==
    IF x.LockTp = "SelectLockForUpdate" /\ (~c.Autocommit \/ c.InTxn)
    THEN [fp EXCEPT !.Lock = TRUE, !.IsForUpdate = TRUE]
    ELSE fp

\* The SelectStmt case of TryFastPlan once the privilege check chk of the plan
\* r.fp is known.
SelectChecked(x, r, chk) ==
    IF chk.err THEN [plan |-> Nil, ctx |-> r.ctx, reqs |-> chk.reqs]
    ELSE IF r.fp.IsTableDual
    THEN [plan |-> PhysicalTableDual(r.fp.schema), ctx |-> r.ctx, reqs |-> chk.reqs]
    ELSE [plan |-> SelectLock(r.ctx, x, r.fp), ctx |-> r.ctx, reqs |-> chk.reqs]

\* The SelectStmt case of TryFastPlan from r = tryPointGetPlan(ctx, x) on.
SelectPointGet(x, r) ==
    IF r.fp = Nil THEN [plan |-> Nil, ctx |-> r.ctx, reqs |-> <<>>]
    ELSE SelectChecked(x, r, checkFastPlanPrivilege(r.ctx, r.fp, <<"SelectPriv">>))

\* The loop of tryWhereIn2BatchPointGet over in.List from row k on:
\* [children, ctx, reqs], where children is Nil (one candidate has no fast plan),
\* Panic (the type assertion fp.(*PointGetPlan) failed) or the Slice of children.
\* r is what TryFastPlan(ctx, reusedStmt) returns for row k: the WHERE of
\* reusedStmt is a BinaryOperationExpr, so its own batch attempt returns nil and
\* the call continues with tryPointGetPlan.
RECURSIVE BatchChildren(_, _, _, _, _, _)
RECURSIVE BatchStep(_, _, _, _, _, _)
BatchStep(selStmt, in, k, children, reqs, r) ==
    IF r.plan = Nil
    THEN [children |-> Nil, ctx |-> r.ctx, reqs |-> reqs \o r.reqs]
    ELSE IF r.plan.type # "PointGetPlan"
    THEN [children |-> Panic, ctx |-> r.ctx, reqs |-> reqs \o r.reqs]
    ELSE BatchChildren(r.ctx, selStmt, in, k + 1, Append(children, r.plan), reqs \o r.reqs)

BatchChildren(c, selStmt, in, k, children, reqs) ==
    IF k > Len(in.List) THEN [children |-> Slice(children), ctx |-> c, reqs |-> reqs]
    ELSE IF CandidateWhere(in, in.List[k]) = Nil
    THEN [children |-> Nil, ctx |-> c, reqs |-> reqs]
    ELSE BatchStep(selStmt, in, k, children, reqs,
                   SelectPointGet(ReusedStmt(selStmt, CandidateWhere(in, in.List[k])),
                                  tryPointGetPlan(c, ReusedStmt(selStmt,
                                                     CandidateWhere(in, in.List[k])))))

\* The PhysicalUnionAll over the children b of the batch, if all were planned.
BatchUnion(b) ==
    IF b.children = Nil THEN [plan |-> Nil, ctx |-> b.ctx, reqs |-> b.reqs]
    ELSE IF b.children = Panic THEN [plan |-> Panic, ctx |-> b.ctx, reqs |-> b.reqs]
    ELSE [plan |-> [type |-> "PhysicalUnionAll", IsPointGetUnion |-> TRUE,
                    children |-> b.children.elems,
                    schema |-> b.children.elems[1].schema,
                    RowCount |-> StatsCount(b.children.elems[1]) * Len(b.children.elems)],
          ctx |-> b.ctx, reqs |-> b.reqs]

\* tryWhereIn2BatchPointGet: [plan, ctx, reqs].
tryWhereIn2BatchPointGet(c, selStmt) ==
    IF \/ selStmt.OrderBy # Nil \/ selStmt.GroupBy # Nil \/ selStmt.Limit # Nil
       \/ selStmt.Having # Nil \/ Len(selStmt.WindowSpecs) > 0
       \/ selStmt.LockTp # "SelectLockNone"
    THEN [plan |-> Nil, ctx |-> c, reqs |-> <<>>]
    ELSE IF selStmt.Where.type # "PatternInExpr"
    THEN [plan |-> Nil, ctx |-> c, reqs |-> <<>>]
    ELSE IF selStmt.Where.Not \/ Len(selStmt.Where.List) < 1
    THEN [plan |-> Nil, ctx |-> c, reqs |-> <<>>]
    ELSE IF selStmt.Where.Expr.type \notin {"ColumnNameExpr", "RowExpr"}
    THEN [plan |-> Nil, ctx |-> c, reqs |-> <<>>]
    ELSE IF selStmt.Where.Expr.type = "RowExpr" /\ Len(selStmt.Where.Expr.Values) < 1
    THEN [plan |-> Nil, ctx |-> c, reqs |-> <<>>]
    ELSE BatchUnion(BatchChildren(c, selStmt, selStmt.Where, 1, <<>>, <<>>))

\* The SelectStmt case of TryFastPlan from the batch attempt on.
SelectAfterBatch(x, batch) ==
    IF batch.plan # Nil THEN batch
    ELSE AfterRequests(batch.reqs, SelectPointGet(x, tryPointGetPlan(batch.ctx, x)))

\* The SelectStmt case of TryFastPlan: [plan, ctx, reqs].
trySelectPlan(c, x) == SelectAfterBatch(x, tryWhereIn2BatchPointGet(c, x))

\* schema.FindColumn(name): [err, col]; err when the name is ambiguous in the
\* schema, col Nil when no column carries it.
FindColumn(schema, colName) ==
    LET hits == {i \in DOMAIN schema.Columns :
                    /\ schema.Columns[i].ColName = colName.Name
                    /\ (colName.Table = "" \/ colName.Table = schema.Columns[i].TblName)}
    IN  IF hits = {} THEN [err |-> FALSE, col |-> Nil]
        ELSE IF Cardinality(hits) > 1 THEN [err |-> TRUE, col |-> Nil]
        ELSE [err |-> FALSE, col |-> schema.Columns[CHOOSE i \in hits : TRUE]]

\* expression.RewriteSimpleExprWithSchema fails on expr.
RewriteFails(expr, schema) ==
    CASE expr.type \in {"ValueExpr", "ParamMarkerExpr"} -> FALSE
      [] expr.type = "ColumnNameExpr" ->
            FindColumn(schema, expr).err \/ FindColumn(schema, expr).col = Nil
      [] OTHER -> TRUE

\* buildOrderedList from assignment k on: Nil, or the Slice of assignments.
RECURSIVE OrderedListFrom(_, _, _, _)
OrderedListFrom(fastSelect, list, k, orderedList) ==
    IF k > Len(list) THEN Slice(orderedList)
    ELSE
        LET found == FindColumn(fastSelect.schema, list[k].Column) IN
        IF found.err THEN Nil
        ELSE IF found.col = Nil THEN Nil
        ELSE IF RewriteFails(list[k].Expr, fastSelect.schema) THEN Nil
        ELSE OrderedListFrom(fastSelect, list, k + 1,
                             Append(orderedList, [Col |-> found.col, Expr |-> list[k].Expr]))

buildOrderedList(c, fastSelect, list) == OrderedListFrom(fastSelect, list, 1, <<>>)

\* findHandleCol without p.schema.Append(handleCol) (line 710).
findHandleColNoAppend(p) ==
    LET tbl == p.TblInfo
        keys == IF tbl.PKIsHandle THEN PriKeyCols(tbl) ELSE {}
    IN  IF keys # {}
        THEN [handleCol |-> p.schema.Columns[CHOOSE i \in keys : \A j \in keys : j <= i],
              p |-> p]
        ELSE
            LET oneCol == p.schema.Columns[1]
                handleCol == colInfoToColumn(oneCol.DBName, oneCol.OrigTblName, oneCol.TblName,
                                             ExtraHandleName, ExtraHandleColInfo,
                                             Len(p.schema.Columns))
            IN  [handleCol |-> handleCol, p |-> p]

\* findHandleCol: [handleCol, p]: the handle column, and the plan with the
\* hidden handle column appended to its schema when the table has no integer
\* primary key to serve as the handle.
findHandleCol(p) ==
    LET tbl == p.TblInfo
        keys == IF tbl.PKIsHandle THEN PriKeyCols(tbl) ELSE {}
    IN  IF keys # {}
        THEN [handleCol |-> p.schema.Columns[CHOOSE i \in keys : \A j \in keys : j <= i],
              p |-> p]
        ELSE
            LET oneCol == p.schema.Columns[1]
                handleCol == colInfoToColumn(oneCol.DBName, oneCol.OrigTblName, oneCol.TblName,
                                             ExtraHandleName, ExtraHandleColInfo,
                                             Len(p.schema.Columns))
            IN  [handleCol |-> handleCol,
                 p |-> [p EXCEPT !.schema.Columns = Append(p.schema.Columns, handleCol)]]

\* The TblColPosInfos of a mutation plan over fastSelect.
TblColPosInfos(fastSelect, handleCol) ==
    <<[TblID |-> fastSelect.TblInfo.ID, Start |-> 0,
       End |-> Len(fastSelect.schema.Columns), HandleOrdinal |-> handleCol.Index]>>

\* The row lock an UPDATE or DELETE takes in a pessimistic transaction.
MutationLock(c, fastSelect) ==
    IF c.IsPessimistic THEN [fastSelect EXCEPT !.Lock = TRUE] ELSE fastSelect

\* The Update plan over fastSelect with its handle column h resolved.
UpdatePlan(h, orderedList) ==
    [type |-> "Update", SelectPlan |-> h.p, OrderedList |-> orderedList.elems,
     TblColPosInfos |-> TblColPosInfos(h.p, h.handleCol)]

\* tryUpdatePointPlan from the ordered list on.
UpdateOrdered(r, chk, fastSelect, orderedList) ==
    IF orderedList = Nil THEN [plan |-> Nil, ctx |-> r.ctx, reqs |-> chk.reqs]
    ELSE [plan |-> UpdatePlan(findHandleCol(fastSelect), orderedList),
          ctx |-> r.ctx, reqs |-> chk.reqs]

\* tryUpdatePointPlan from the lock on.
UpdateLocked(updateStmt, r, chk, fastSelect) ==
    UpdateOrdered(r, chk, fastSelect, buildOrderedList(r.ctx, fastSelect, updateStmt.List))

\* tryUpdatePointPlan once the privilege check chk of the plan r.fp is known.
UpdateChecked(updateStmt, r, chk) ==
    IF chk.err THEN [plan |-> Nil, ctx |-> r.ctx, reqs |-> chk.reqs]
    ELSE IF r.fp.IsTableDual
    THEN [plan |-> PhysicalTableDual(Nil), ctx |-> r.ctx, reqs |-> chk.reqs]
    ELSE UpdateLocked(updateStmt, r, chk, MutationLock(r.ctx, r.fp))

\* tryUpdatePointPlan from fastSelect = r.fp on.
UpdatePointGet(updateStmt, r) ==
    IF r.fp = Nil THEN [plan |-> Nil, ctx |-> r.ctx, reqs |-> <<>>]
    ELSE UpdateChecked(updateStmt, r,
                       checkFastPlanPrivilege(r.ctx, r.fp, <<"SelectPriv", "UpdatePriv">>))

\* tryUpdatePointPlan: [plan, ctx, reqs].
tryUpdatePointPlan(c, updateStmt) ==
    UpdatePointGet(updateStmt, tryPointGetPlan(c, MutationSelect(updateStmt)))

\* The Delete plan over fastSelect with its handle column h resolved.
DeletePlan(h) ==
    [type |-> "Delete", SelectPlan |-> h.p,
     TblColPosInfos |-> TblColPosInfos(h.p, h.handleCol)]

\* tryDeletePointPlan once the privilege check chk of the plan r.fp is known.
DeleteChecked(r, chk) ==
    IF chk.err THEN [plan |-> Nil, ctx |-> r.ctx, reqs |-> chk.reqs]
    ELSE IF r.fp.IsTableDual
    THEN [plan |-> PhysicalTableDual(Nil), ctx |-> r.ctx, reqs |-> chk.reqs]
    ELSE [plan |-> DeletePlan(findHandleCol(MutationLock(r.ctx, r.fp))),
          ctx |-> r.ctx, reqs |-> chk.reqs]

\* tryDeletePointPlan from fastSelect = r.fp on.
DeletePointGet(r) ==
    IF r.fp = Nil THEN [plan |-> Nil, ctx |-> r.ctx, reqs |-> <<>>]
    ELSE DeleteChecked(r, checkFastPlanPrivilege(r.ctx, r.fp, <<"SelectPriv", "DeletePriv">>))

\* tryDeletePointPlan: [plan, ctx, reqs].
tryDeletePointPlan(c, delStmt) ==
    IF delStmt.IsMultiTable THEN [plan |-> Nil, ctx |-> c, reqs |-> <<>>]
    ELSE DeletePointGet(tryPointGetPlan(c, MutationSelect(delStmt)))

\* TryFastPlan: [plan, ctx, reqs]: the plan returned (Nil: none; Panic: the call
\* panicked), the context it leaves and the privilege verifications it requested.
TryFastPlan(c, x) ==
    CASE x.type = "SelectStmt" -> trySelectPlan(c, x)
      [] x.type = "UpdateStmt" -> tryUpdatePointPlan(c, x)
      [] x.type = "DeleteStmt" -> tryDeletePointPlan(c, x)
      [] OTHER -> [plan |-> Nil, ctx |-> c, reqs |-> <<>>]

-----------------------------------------------------------------------------
(* The inputs: table metadata, statements and session contexts. *)

ColumnInfo(name, id, priKey, unsigned) ==
    [Name |-> name, ID |-> id, PriKey |-> priKey, Unsigned |-> unsigned,
     Generated |-> FALSE, State |-> "public"]

IndexInfo(name, columns) ==
    [Name |-> name, Columns |-> columns, Unique |-> TRUE, State |-> "public",
     HasPrefixIndex |-> FALSE]

TableInfo(pkIsHandle, columns, indices) ==
    [Name |-> "t", ID |-> 1, PKIsHandle |-> pkIsHandle, Partition |-> Nil,
     Columns |-> columns, Indices |-> indices]

\* Columns a, b, c with none, or a, flagged as primary key.
PlainColumns ==
    <<ColumnInfo("a", 1, FALSE, FALSE), ColumnInfo("b", 2, FALSE, FALSE),
      ColumnInfo("c", 3, FALSE, FALSE)>>
KeyColumns(unsigned) ==
    <<ColumnInfo("a", 1, TRUE, unsigned), ColumnInfo("b", 2, FALSE, FALSE),
      ColumnInfo("c", 3, FALSE, FALSE)>>

\* create table t (a int [unsigned] primary key, b int, c int).
HandleTable(unsigned, indices) == TableInfo(TRUE, KeyColumns(unsigned), indices)
\* create table t (a int, b int, c int, ...indices).
RowIdTable(indices) == TableInfo(FALSE, PlainColumns, indices)

\* FROM [schema.]t [AS asName].
SingleTable(schema, asName, tbl) ==
    [type |-> "TableRefsClause",
     TableRefs |-> [type |-> "Join",
                    Left |-> [type |-> "TableSource", AsName |-> asName,
                              Source |-> [type |-> "TableName", Schema |-> schema,
                                          Name |-> tbl.Name, TableInfo |-> tbl]],
                    Right |-> Nil]]

\* Select fields.
WildCardField(table) == [WildCard |-> [Table |-> table], Expr |-> Nil, AsName |-> ""]
ExprField(expr, asName) == [WildCard |-> Nil, Expr |-> expr, AsName |-> asName]

Limit(count, offset) == [Count |-> count, Offset |-> offset, Err |-> FALSE]
BadLimit == [Count |-> 0, Offset |-> 0, Err |-> TRUE]

\* SELECT fields FROM from WHERE where, with no other clause.
SelectStmt(from, fields, where) ==
    [type |-> "SelectStmt", Distinct |-> FALSE, From |-> from, Fields |-> fields,
     Where |-> where, OrderBy |-> Nil, GroupBy |-> Nil, Limit |-> Nil, Having |-> Nil,
     WindowSpecs |-> <<>>, LockTp |-> "SelectLockNone"]

Assignment(column, expr) == [Column |-> column, Expr |-> expr]

\* UPDATE from SET list WHERE where.
UpdateStmt(from, list, where) ==
    [type |-> "UpdateStmt", TableRefs |-> from, Where |-> where, Order |-> Nil,
     Limit |-> Nil, List |-> list]

\* DELETE FROM from WHERE where.
DeleteStmt(from, where) ==
    [type |-> "DeleteStmt", TableRefs |-> from, Where |-> where, Order |-> Nil,
     Limit |-> Nil, IsMultiTable |-> FALSE]

\* A privilege manager that denies the requests in denied.
PrivilegeManager(denied) == [type |-> "Manager", denied |-> denied]

\* The session: current database db, autocommit on, no transaction open,
\* optimistic, truncation ignored, every privilege granted.
Session(db) ==
    [CurrentDB |-> db, Autocommit |-> TRUE, InTxn |-> FALSE, IsPessimistic |-> FALSE,
     IgnoreTruncate |-> TRUE, pm |-> PrivilegeManager({}), StmtCtxTables |-> <<>>]

Col(name) == ColumnNameExpr("", name)
Lit(n) == ValueExpr(IntDatum(n))
Eq(l, r) == BinaryOperationExpr("EQ", l, r)
And(l, r) == BinaryOperationExpr("LogicAnd", l, r)

\* SET b = 5.
SetB == <<Assignment(Col("b"), Lit(5))>>

-----------------------------------------------------------------------------
(* The state machine. *)

\* The state before TryFastPlan is called on one of nodes under one of ctxs.
InitOf(nodes, ctxs) ==
    /\ node \in nodes
    /\ ctx \in ctxs
    /\ plan = Nil
    /\ verified = <<>>
    /\ pc = "ready"

\* The state after TryFastPlan returned r.
Return(r) ==
    /\ plan' = r.plan
    /\ ctx' = r.ctx
    /\ verified' = r.reqs
    /\ pc' = "done"
    /\ UNCHANGED node

\* TryFastPlan(ctx, node), as one step.
Call == Return(TryFastPlan(ctx, node))

PlanSelect == pc = "ready" /\ node.type = "SelectStmt" /\ Call
PlanUpdate == pc = "ready" /\ node.type = "UpdateStmt" /\ Call
PlanDelete == pc = "ready" /\ node.type = "DeleteStmt" /\ Call

Next == PlanSelect \/ PlanUpdate \/ PlanDelete

-----------------------------------------------------------------------------
(* Point lookups on the integer primary key: the key's range, literals of   *)
(* every kind around its limits, the three statement kinds.                 *)

\* The integers around the limits of the signed and unsigned key types.
EdgeInts == {MinInt - 1, MinInt, -1, 1, MaxInt, MaxInt + 1, MaxUint, MaxUint + 1}

HandleValues ==
    {ValueExpr(IntDatum(n)) : n \in EdgeInts}
        \cup {ValueExpr(DecDatum(2)), ValueExpr(DecDatum(3)), ValueExpr(DecDatum(2 * MaxUint + 3)),
              ValueExpr(StrDatum(1)), ValueExpr(StrDatum(MaxUint + 1)),
              ValueExpr(TimeDatum), ValueExpr(NullDatum),
              ParamMarkerExpr(IntDatum(1), 0), ParamMarkerExpr(IntDatum(MaxUint), 0)}

HandleWheres ==
    {Eq(Col(n), v) : n \in {"a", "b"}, v \in HandleValues}
        \cup {Eq(v, Col("a")) : v \in HandleValues}
        \cup {Eq(ColumnNameExpr(q, "a"), Lit(n)) : q \in {"t", "x"}, n \in {1, MaxUint}}

HandleTables ==
    {HandleTable(u, <<>>) : u \in BOOLEAN} \cup {RowIdTable(<<IndexInfo("ua", <<"a">>)>>)}

HandleNodes ==
    LET froms == {SingleTable("", "", t) : t \in HandleTables} IN
    {SelectStmt(f, fs, w) :
        f \in froms, w \in HandleWheres,
        fs \in {<<WildCardField("")>>, <<ExprField(Col("b"), "")>>,
                <<ExprField(Col("nosuch"), "")>>}}
        \cup {UpdateStmt(f, SetB, w) : f \in froms, w \in HandleWheres}
        \cup {DeleteStmt(f, w) : f \in froms, w \in HandleWheres}

HandleCtxs ==
    {[Session("db1") EXCEPT !.IgnoreTruncate = i, !.pm = m] :
        i \in BOOLEAN,
        m \in {Nil, PrivilegeManager({}),
               PrivilegeManager({[db |-> "db1", table |-> "t", priv |-> "SelectPriv"]})}}

InitHandle == InitOf(HandleNodes, HandleCtxs)
SpecHandle == InitHandle /\ [][Next]_vars

-----------------------------------------------------------------------------
(* What the claims below say of a statement, read off the statement itself. *)

\* The FROM clause of a statement.
FromOf(n) == IF n.type = "SelectStmt" THEN n.From ELSE n.TableRefs

\* The statement reads one plain table whose metadata is loaded.
OneTable(n) ==
    /\ FromOf(n) # Nil
    /\ FromOf(n).TableRefs # Nil
    /\ FromOf(n).TableRefs.Right = Nil
    /\ FromOf(n).TableRefs.Left.type = "TableSource"
    /\ FromOf(n).TableRefs.Left.Source.type = "TableName"
    /\ FromOf(n).TableRefs.Left.Source.TableInfo # Nil
    /\ (n.type = "DeleteStmt" => ~n.IsMultiTable)

TableNameOf(n) == FromOf(n).TableRefs.Left.Source
TableOf(n) == TableNameOf(n).TableInfo
AliasOf(n) ==
    IF FromOf(n).TableRefs.Left.AsName = "" THEN TableNameOf(n).Name
    ELSE FromOf(n).TableRefs.Left.AsName

\* The table is eligible: not partitioned, every column plain and public.
Eligible(tbl) ==
    /\ tbl.Partition = Nil
    /\ \A k \in DOMAIN tbl.Columns :
          ~tbl.Columns[k].Generated /\ tbl.Columns[k].State = "public"

\* The row identity of the table is its integer primary key.
HasIntKey(tbl) == tbl.PKIsHandle /\ PriKeyCols(tbl) # {}
KeyColumn(tbl) == tbl.Columns[CHOOSE i \in PriKeyCols(tbl) : \A j \in PriKeyCols(tbl) : i <= j]

\* e is column = value or value = column, the value a non-NULL literal or parameter.
IsValue(e) == e.type \in {"ValueExpr", "ParamMarkerExpr"} /\ e.Datum.kind # "null"
IsEquality(e) ==
    /\ e.type = "BinaryOperationExpr"
    /\ e.Op = "EQ"
    /\ \/ e.L.type = "ColumnNameExpr" /\ IsValue(e.R)
       \/ e.R.type = "ColumnNameExpr" /\ IsValue(e.L)
EqColumn(e) == IF e.L.type = "ColumnNameExpr" THEN e.L ELSE e.R
EqValue(e) == IF e.L.type = "ColumnNameExpr" THEN e.R ELSE e.L

\* The column reference names a column of the statement's table.
OwnColumn(n, col) == col.Table = "" \/ col.Table = AliasOf(n)

\* The WHERE of n is the single equality  key = v.
KeyEquality(n) ==
    /\ OneTable(n)
    /\ HasIntKey(TableOf(n))
    /\ IsEquality(n.Where)
    /\ OwnColumn(n, EqColumn(n.Where))
    /\ EqColumn(n.Where).Name = KeyColumn(TableOf(n)).Name

\* The privileges a statement needs, and whether the privilege manager of c
\* grants them all.
RequiredPrivs(n) ==
    CASE n.type = "SelectStmt" -> {"SelectPriv"}
      [] n.type = "UpdateStmt" -> {"SelectPriv", "UpdatePriv"}
      [] n.type = "DeleteStmt" -> {"SelectPriv", "DeletePriv"}
Granted(c, n) == c.pm = Nil \/ \A req \in c.pm.denied : req.priv \notin RequiredPrivs(n)

\* The clauses around the predicate leave the statement on the fast path: no
\* HAVING, a LIMIT (if any) of at least one row from the first, a field list
\* that resolves against the table.
FieldsResolve(c, n) ==
    n.type = "SelectStmt" =>
        buildSchemaFromFields(c, TableNameOf(n).Schema, TableOf(n), AliasOf(n), n.Fields) # Nil
PlainClauses(c, n) ==
    /\ n.type = "SelectStmt" => n.Having = Nil
    /\ n.Limit = Nil \/ ~LimitRejects(n.Limit)
    /\ FieldsResolve(c, n)

\* n is an otherwise qualifying statement on an eligible table, with its
\* privileges granted.
Qualifies(c, n) == OneTable(n) /\ Eligible(TableOf(n)) /\ PlainClauses(c, n) /\ Granted(c, n)

-----------------------------------------------------------------------------
(* C1, C2: point lookups on the integer primary key. *)

\* The case of C1: a SELECT with WHERE key = v, v an integer that the key's
\* type holds exactly.
C1Case ==
    /\ pc = "done"
    /\ node.type = "SelectStmt"
    /\ Qualifies(ctx, node)
    /\ KeyEquality(node)
    /\ EqValue(node.Where).Datum.kind = "int"
    /\ ConvertTo(EqValue(node.Where).Datum, KeyColumn(TableOf(node)).Unsigned,
                 ctx.IgnoreTruncate).err = "nil"

\* What C1 says of the plan but for the handle's value.
C1Plan ==
    /\ plan.type = "PointGetPlan"
    /\ plan.IndexInfo = Nil
    /\ plan.IndexValues = <<>>
    /\ ~plan.IsTableDual
    /\ plan.UnsignedHandle = KeyColumn(TableOf(node)).Unsigned

\* C1 as stated: SELECT ... WHERE pk = v on a table whose integer primary key
\* is the row handle returns one PointGetPlan with Handle = v, no index,
\* IsTableDual false and UnsignedHandle the key column's unsigned flag.
C1_AsStated == C1Case => C1Plan /\ plan.Handle = EqValue(node.Where).Datum.num

\* C1, amended: the same, with Handle holding v in the handle's signed width:
\* Handle = v when v fits the signed range, and for an unsigned key above it
\* Handle is v less 2^width, so that uint64(Handle) = v.
C1_HandleLookup ==
    C1Case =>
        /\ C1Plan
        /\ IF plan.UnsignedHandle
           THEN ToUint64(plan.Handle) = EqValue(node.Where).Datum.num
           ELSE plan.Handle = EqValue(node.Where).Datum.num
        /\ plan.Handle \in MinInt..MaxInt

\* A lookup on an unsigned key above the signed range has been planned.
C1_Witness ==
    /\ C1Case
    /\ KeyColumn(TableOf(node)).Unsigned
    /\ EqValue(node.Where).Datum.num = MaxUint
    /\ plan.type = "PointGetPlan"

\* The case of C2: WHERE key = v where v overflows the key's type, or is
\* truncated by the conversion to a value that compares unequal to v.
Overflows(d, unsigned, ignoreTruncate) == ConvertTo(d, unsigned, ignoreTruncate).err = "overflow"
TruncatesUnequal(d, unsigned, ignoreTruncate) ==
    LET conv == ConvertTo(d, unsigned, ignoreTruncate) IN
    /\ conv.err = "truncated"
    /\ ~CompareDatum(conv.val, d, ignoreTruncate).err
    /\ CompareDatum(conv.val, d, ignoreTruncate).cmp # 0
C2Case ==
    /\ pc = "done"
    /\ Qualifies(ctx, node)
    /\ KeyEquality(node)
    /\ \/ Overflows(EqValue(node.Where).Datum, KeyColumn(TableOf(node)).Unsigned,
                    ctx.IgnoreTruncate)
       \/ TruncatesUnequal(EqValue(node.Where).Datum, KeyColumn(TableOf(node)).Unsigned,
                           ctx.IgnoreTruncate)

\* C2: a SELECT, UPDATE or DELETE with WHERE pk = v, v overflowing the key's
\* type or truncated to a value unequal to v, gets the empty-result plan (a
\* table dual of zero rows): never no plan, never a panic.
C2_EmptyResult == C2Case => plan.type = "PhysicalTableDual" /\ plan.RowCount = 0

\* An UPDATE whose key value is truncated to another value has been planned,
\* and so has a SELECT whose key value overflows.
C2_Witness ==
    /\ C2Case
    /\ node.type = "UpdateStmt"
    /\ EqValue(node.Where).Datum.kind = "dec"
    /\ ~Overflows(EqValue(node.Where).Datum, KeyColumn(TableOf(node)).Unsigned,
                  ctx.IgnoreTruncate)

-----------------------------------------------------------------------------
(* Lookups through unique indexes: tables with up to MaxIndices indexes,    *)
(* conjunctions of equalities in every order.                               *)

\* Most indexes of a table.
MaxIndices == 2

PrefixIndex(name, columns) == [IndexInfo(name, columns) EXCEPT !.HasPrefixIndex = TRUE]

IndexPool ==
    {IndexInfo("ab", <<"a", "b">>), IndexInfo("ba", <<"b", "a">>), IndexInfo("b", <<"b">>),
     IndexInfo("a", <<"a">>), IndexInfo("cab", <<"c", "a", "b">>), PrefixIndex("pb", <<"b">>)}

\* The lists of at most n distinct indexes of the pool.
RECURSIVE IndexLists(_)
IndexLists(n) ==
    IF n = 0 THEN {<<>>}
    ELSE IndexLists(n - 1)
            \cup {Append(l, i) : l \in {m \in IndexLists(n - 1) : Len(m) = n - 1},
                                 i \in IndexPool}

DistinctIndexLists ==
    {l \in IndexLists(MaxIndices) : \A i, j \in DOMAIN l : i # j => l[i] # l[j]}

\* Tables without an integer key under every list of indexes; tables with one
\* under at most one index.
IndexTables ==
    {RowIdTable(l) : l \in DistinctIndexLists}
        \cup {HandleTable(FALSE, l) : l \in {m \in DistinctIndexLists : Len(m) <= 1}}

\* The equalities a = 1, a = 2, b = 2, 2 = b, b = ?, c = 3.
IndexLeaves ==
    {Eq(Col("a"), Lit(1)), Eq(Col("a"), Lit(2)), Eq(Col("b"), Lit(2)), Eq(Lit(2), Col("b")),
     Eq(Col("b"), ParamMarkerExpr(IntDatum(1), 0)), Eq(Col("c"), Lit(3))}

\* The three equalities a = 1, 2 = b, c = 3 in each order.
IndexTriples ==
    LET e == <<Eq(Col("a"), Lit(1)), Eq(Lit(2), Col("b")), Eq(Col("c"), Lit(3))>> IN
    {<<e[i], e[j], e[k]>> : i, j, k \in 1..3} \ {t \in {<<e[i], e[j], e[k]>> : i, j, k \in 1..3} :
                                                   t[1] = t[2] \/ t[1] = t[3] \/ t[2] = t[3]}

\* Conjunctions of one, two and (over a, b, c once each) three equalities.
IndexWheres ==
    IndexLeaves
        \cup {And(x, y) : x, y \in IndexLeaves}
        \cup {And(And(t[1], t[2]), t[3]) : t \in IndexTriples}
        \cup {And(t[1], And(t[2], t[3])) : t \in IndexTriples}

IndexNodes ==
    LET froms == {SingleTable("", "", t) : t \in IndexTables} IN
    {SelectStmt(f, <<WildCardField("")>>, w) : f \in froms, w \in IndexWheres}
        \cup {UpdateStmt(f, SetB, w) : f \in froms, w \in IndexWheres}
        \cup {DeleteStmt(f, w) : f \in froms, w \in IndexWheres}

InitIndex == InitOf(IndexNodes, {Session("db1")})
SpecIndex == InitIndex /\ [][Next]_vars

-----------------------------------------------------------------------------
(* C3: lookups through a unique index. *)

\* The equalities of a tree of ANDs, left to right.
RECURSIVE Conjuncts(_)
Conjuncts(e) ==
    IF e.type = "BinaryOperationExpr" /\ e.Op = "LogicAnd"
    THEN Conjuncts(e.L) \o Conjuncts(e.R)
    ELSE <<e>>

\* The WHERE of n is a conjunction of equalities on columns of its table.
IsConjunction(n) ==
    \A k \in DOMAIN Conjuncts(n.Where) :
        IsEquality(Conjuncts(n.Where)[k]) /\ OwnColumn(n, EqColumn(Conjuncts(n.Where)[k]))

\* The conjunction is exactly one equality for each column of idx.
Covers(n, idx) ==
    /\ IsConjunction(n)
    /\ Len(Conjuncts(n.Where)) = Len(idx.Columns)
    /\ {EqColumn(Conjuncts(n.Where)[k]).Name : k \in DOMAIN Conjuncts(n.Where)}
          = Range(idx.Columns)

\* The value side of the equality on column name.
ValueOn(n, name) ==
    EqValue(CHOOSE e \in Range(Conjuncts(n.Where)) : EqColumn(e).Name = name)

\* A unique, public index without prefix columns.
Usable(idx) == idx.Unique /\ idx.State = "public" /\ ~idx.HasPrefixIndex

\* The usable indexes of the table that the conjunction covers, by position.
Covered(n) ==
    {i \in DOMAIN TableOf(n).Indices :
        Usable(TableOf(n).Indices[i]) /\ Covers(n, TableOf(n).Indices[i])}

\* The lookup plan of a returned plan: the plan itself for a SELECT, the data
\* source of the mutation plan for an UPDATE or DELETE.
LookupOf(p) == IF p.type \in {"Update", "Delete"} THEN p.SelectPlan ELSE p

\* lookup is keyed by idx, with the values and parameters of the conjunction
\* in the order of the columns of idx.
KeyedBy(n, lookup, idx) ==
    /\ lookup.type = "PointGetPlan"
    /\ ~lookup.IsTableDual
    /\ lookup.IndexInfo = idx
    /\ Len(lookup.IndexValues) = Len(idx.Columns)
    /\ Len(lookup.IndexValueParams) = Len(idx.Columns)
    /\ \A k \in DOMAIN idx.Columns :
          /\ lookup.IndexValues[k] = ValueOn(n, idx.Columns[k]).Datum
          /\ lookup.IndexValueParams[k] =
                IF ValueOn(n, idx.Columns[k]).type = "ParamMarkerExpr"
                THEN ValueOn(n, idx.Columns[k]) ELSE Nil

\* The conjunction of the equalities on the columns of idx, written in the
\* order of idx with the column on the left.
RECURSIVE InIndexOrder(_, _, _)
InIndexOrder(n, idx, k) ==
    IF k = 1 THEN Eq(Col(idx.Columns[1]), ValueOn(n, idx.Columns[1]))
    ELSE And(InIndexOrder(n, idx, k - 1), Eq(Col(idx.Columns[k]), ValueOn(n, idx.Columns[k])))

\* The context TryFastPlan was called with.
CalledWith == [ctx EXCEPT !.StmtCtxTables = <<>>]

\* The plan is the one the statement gets with its conjunction rewritten in
\* the order of idx: the written order and the sides of the equalities do not
\* show in the plan.
OrderFree(idx) ==
    plan = TryFastPlan(CalledWith,
                       [node EXCEPT !.Where = InIndexOrder(node, idx, Len(idx.Columns))]).plan

\* The case of C3: an otherwise qualifying statement whose conjunction covers
\* a usable index.
C3Case ==
    /\ pc = "done"
    /\ Qualifies(ctx, node)
    /\ Covered(node) # {}

\* The handle lookup comes first: one equality, on the integer primary key.
OnKeyAlone(n) == KeyEquality(n)

\* C3 as stated: for every unique, public, non-prefix index the conjunction of
\* n equalities covers, the plan is keyed by that index, values in its column
\* order, whatever the written order.
C3_AsStated ==
    C3Case =>
        \A i \in Covered(node) :
            /\ KeyedBy(node, LookupOf(plan), TableOf(node).Indices[i])
            /\ OrderFree(TableOf(node).Indices[i])

\* C3, amended: the plan is keyed by the first such index in the table's
\* declaration order, unless the conjunction is one equality on the integer
\* primary key that is the row handle (then the lookup is by handle, no index);
\* in both cases the written order and the sides of the equalities do not show.
C3_FirstCoveredIndex ==
    C3Case =>
        LET first == CHOOSE i \in Covered(node) : \A j \in Covered(node) : i <= j
            idx == TableOf(node).Indices[first]
        IN  /\ OrderFree(idx)
            /\ IF OnKeyAlone(node)
               THEN LookupOf(plan).type = "PointGetPlan" /\ LookupOf(plan).IndexInfo = Nil
               ELSE KeyedBy(node, LookupOf(plan), idx)

\* A lookup through the three-column index (c, a, b) has been planned from a
\* conjunction written in another order, with a value on the left.
C3_Witness ==
    /\ C3Case
    /\ plan.type = "PointGetPlan"
    /\ plan.IndexInfo # Nil
    /\ plan.IndexInfo.Columns = <<"c", "a", "b">>
    /\ node.Where = And(Eq(Col("a"), Lit(1)), And(Eq(Lit(2), Col("b")), Eq(Col("c"), Lit(3))))

-----------------------------------------------------------------------------
(* The clauses around the predicate (LIMIT, HAVING, ORDER BY, GROUP BY,    *)
(* locking) and the session's transaction state.                            *)

\* Largest count and offset of a LIMIT.
MaxLimit == 2

Limits ==
    {Nil, BadLimit} \cup {Limit(count, offset) : count \in 0..MaxLimit, offset \in 0..MaxLimit}

\* A clause that is present (ORDER BY, GROUP BY, HAVING): only its presence is read.
Present == [type |-> "Clause"]

ClauseTables == {HandleTable(FALSE, <<>>), RowIdTable(<<IndexInfo("ab", <<"a", "b">>)>>)}

\* a = 1, a = 1 AND b = 2, a = (a value past every key), c = 3, a IN (1, 2).
ClauseWheres ==
    {Eq(Col("a"), Lit(1)), And(Eq(Col("a"), Lit(1)), Eq(Col("b"), Lit(2))),
     Eq(Col("a"), Lit(MaxUint + 1)), Eq(Col("c"), Lit(3)),
     PatternInExpr(Col("a"), <<Lit(1), Lit(2)>>, FALSE)}

ClauseNodes ==
    LET froms == {SingleTable("", "", t) : t \in ClauseTables} IN
    {[SelectStmt(f, <<WildCardField("")>>, w) EXCEPT
            !.Limit = l, !.LockTp = k, !.Having = h, !.OrderBy = o, !.GroupBy = g] :
        f \in froms, w \in ClauseWheres, l \in Limits,
        k \in {"SelectLockNone", "SelectLockForUpdate", "SelectLockInShareMode"},
        h \in {Nil, Present}, o \in {Nil, Present}, g \in {Nil, Present}}
        \cup {[UpdateStmt(f, SetB, w) EXCEPT !.Limit = l, !.Order = o] :
                f \in froms, w \in ClauseWheres, l \in Limits, o \in {Nil, Present}}
        \cup {[DeleteStmt(f, w) EXCEPT !.Limit = l, !.Order = o] :
                f \in froms, w \in ClauseWheres, l \in Limits, o \in {Nil, Present}}

ClauseCtxs ==
    {[Session("db1") EXCEPT !.Autocommit = a, !.InTxn = t, !.IsPessimistic = p] :
        a \in BOOLEAN, t \in BOOLEAN, p \in BOOLEAN}

InitClause == InitOf(ClauseNodes, ClauseCtxs)
SpecClause == InitClause /\ [][Next]_vars

-----------------------------------------------------------------------------
(* C4: LIMIT. *)

\* What TryFastPlan returns for the statement with its LIMIT taken away.
WithoutLimit == TryFastPlan(CalledWith, [node EXCEPT !.Limit = Nil]).plan

\* The case of C4: but for its LIMIT the statement gets a single point lookup
\* (for an UPDATE or DELETE, the mutation plan over it).
C4Case ==
    /\ pc = "done"
    /\ WithoutLimit.type \in {"PointGetPlan", "Update", "Delete"}

\* C4: a LIMIT of count 0, or of offset above 0 whatever the count, leaves no
\* plan; a LIMIT of count at least 1 and offset 0, like no LIMIT, leaves the
\* point-lookup plan.
C4_Limit ==
    C4Case =>
        /\ (node.Limit # Nil /\ ~node.Limit.Err /\ (node.Limit.Count = 0 \/ node.Limit.Offset > 0))
              => plan = Nil
        /\ (node.Limit = Nil \/ (~node.Limit.Err /\ node.Limit.Count >= 1 /\ node.Limit.Offset = 0))
              => plan = WithoutLimit

\* A lookup with LIMIT 2 was planned, ...
C4_Witness ==
    /\ C4Case
    /\ node.Limit = Limit(MaxLimit, 0)
    /\ node.type = "DeleteStmt"
    /\ plan.type = "Delete"

-----------------------------------------------------------------------------
(* C8: the lock flags. *)

\* FOR UPDATE takes effect: autocommit is off or a transaction is open.
LockingRead(c, n) ==
    n.type = "SelectStmt" /\ n.LockTp = "SelectLockForUpdate" /\ (~c.Autocommit \/ c.InTxn)

\* An UPDATE or DELETE in a pessimistic transaction.
PessimisticWrite(c, n) == n.type \in {"UpdateStmt", "DeleteStmt"} /\ c.IsPessimistic

\* The lookup plans of a returned plan: the children of a batch, else the one lookup.
LookupsOf(p) ==
    IF p.type = "PhysicalUnionAll" THEN Range(p.children)
    ELSE IF LookupOf(p).type = "PointGetPlan" THEN {LookupOf(p)}
    ELSE {}

\* C8: Lock is set exactly for a SELECT ... FOR UPDATE planned with autocommit
\* off or a transaction open (and then IsForUpdate too) and for an UPDATE or
\* DELETE in a pessimistic transaction; IsForUpdate is never set without Lock.
C8_LockFlags ==
    pc = "done" =>
        \A p \in LookupsOf(plan) :
            /\ p.Lock <=> (LockingRead(ctx, node) \/ PessimisticWrite(ctx, node))
            /\ p.IsForUpdate <=> LockingRead(ctx, node)
            /\ p.IsForUpdate => p.Lock

\* SELECT ... FOR UPDATE under autocommit with no transaction open got its
\* lookup plan, unlocked.
C8_Witness ==
    /\ pc = "done"
    /\ node.type = "SelectStmt"
    /\ node.LockTp = "SelectLockForUpdate"
    /\ ctx.Autocommit /\ ~ctx.InTxn
    /\ plan.type = "PointGetPlan"
    /\ ~plan.Lock

-----------------------------------------------------------------------------
(* IN lists: a column, or a row of columns, against up to MaxInList          *)
(* candidates.                                                                *)

\* The sequences over set S of length 1 to n.
RECURSIVE ListsUpTo(_, _)
ListsUpTo(S, n) ==
    IF n = 0 THEN {}
    ELSE {<<x>> : x \in S} \cup ListsUpTo(S, n - 1)
            \cup {Append(l, x) : l \in ListsUpTo(S, n - 1), x \in S}

\* 1, 2, a value past every key, NULL, ? bound to 1.
BatchValues ==
    {Lit(1), Lit(2), Lit(MaxUint + 1), ValueExpr(NullDatum), ParamMarkerExpr(IntDatum(1), 0)}

\* (1, 2), (2, 1) and the one-element row (1).
BatchRows ==
    {RowExpr(<<Lit(1), Lit(2)>>), RowExpr(<<Lit(2), Lit(1)>>), RowExpr(<<Lit(1)>>)}

\* t (a int primary key, b int unique, c int) and t (a, b, c, unique (a, b)).
BatchTables ==
    {HandleTable(FALSE, <<IndexInfo("ub", <<"b">>)>>),
     RowIdTable(<<IndexInfo("uab", <<"a", "b">>)>>)}

BatchWheres ==
    {PatternInExpr(Col(n), l, neg) :
        n \in {"a", "b", "c"}, l \in ListsUpTo(BatchValues, MaxInList), neg \in BOOLEAN}
        \cup {PatternInExpr(RowExpr(<<Col("a"), Col("b")>>), l, neg) :
                l \in ListsUpTo(BatchRows, MaxInList), neg \in BOOLEAN}

BatchNodes ==
    LET froms == {SingleTable("", "", t) : t \in BatchTables} IN
    {[SelectStmt(f, <<WildCardField("")>>, w) EXCEPT !.OrderBy = o, !.LockTp = k] :
        f \in froms, w \in BatchWheres, o \in {Nil, Present},
        k \in {"SelectLockNone", "SelectLockForUpdate"}}
        \cup {UpdateStmt(f, SetB, w) :
                f \in froms,
                w \in {Eq(Col("a"), Lit(1)), PatternInExpr(Col("a"), <<Lit(1), Lit(2)>>, FALSE)}}
        \cup {DeleteStmt(f, w) :
                f \in froms,
                w \in {Eq(Col("a"), Lit(1)), PatternInExpr(Col("a"), <<Lit(1), Lit(2)>>, FALSE)}}

BatchCtxs ==
    {[Session("db1") EXCEPT !.pm = m] :
        m \in {Nil, PrivilegeManager({}),
               PrivilegeManager({[db |-> "db1", table |-> "t", priv |-> "SelectPriv"]})}}

InitBatch == InitOf(BatchNodes, BatchCtxs)
SpecBatch == InitBatch /\ [][Next]_vars

-----------------------------------------------------------------------------
(* C5: the batch of an IN list. *)

\* Column name is the integer primary key that is the row handle, or the one
\* column of a usable unique index.
UniquelyKeyed(tbl, name) ==
    \/ HasIntKey(tbl) /\ KeyColumn(tbl).Name = name
    \/ \E i \in DOMAIN tbl.Indices : Usable(tbl.Indices[i]) /\ tbl.Indices[i].Columns = <<name>>

\* The SELECT has none of the clauses the batch adapter refuses.
NoClauses(n) ==
    /\ n.OrderBy = Nil /\ n.GroupBy = Nil /\ n.Limit = Nil /\ n.Having = Nil
    /\ Len(n.WindowSpecs) = 0
    /\ n.LockTp = "SelectLockNone"

\* The case of C5: SELECT ... WHERE column IN (e1, ..., ek), the column
\* uniquely keyed, the elements literals or parameters, no other clause.
C5Case ==
    /\ pc = "done"
    /\ node.type = "SelectStmt"
    /\ OneTable(node)
    /\ Eligible(TableOf(node))
    /\ NoClauses(node)
    /\ node.Where.type = "PatternInExpr"
    /\ ~node.Where.Not
    /\ node.Where.Expr.type = "ColumnNameExpr"
    /\ OwnColumn(node, node.Where.Expr)
    /\ UniquelyKeyed(TableOf(node), node.Where.Expr.Name)
    /\ Len(node.Where.List) >= 1
    /\ \A k \in DOMAIN node.Where.List :
          node.Where.List[k].type \in {"ValueExpr", "ParamMarkerExpr"}

\* What planning  SELECT ... WHERE column = ek  alone returns.
ElementPlan(k) ==
    TryFastPlan(CalledWith,
                ReusedStmt(node, Eq(node.Where.Expr, node.Where.List[k]))).plan

\* C5 as stated: the batch adapter returns a union with one single-row
\* PointGetPlan child for each list element, in order; when re-planning some
\* element gives no single-row lookup plan, no plan is returned at all.
C5_UnionOrFallback ==
    C5Case =>
        IF \A k \in DOMAIN node.Where.List : ElementPlan(k).type = "PointGetPlan"
        THEN /\ plan.type = "PhysicalUnionAll"
             /\ Len(plan.children) = Len(node.Where.List)
             /\ \A k \in DOMAIN node.Where.List : plan.children[k] = ElementPlan(k)
        ELSE plan = Nil

-----------------------------------------------------------------------------
(* Tables off the fast path: partitioned, with a generated or non-public    *)
(* column, or indexed only by a prefix of a column.                          *)

PartitionInfo == [type |-> "PartitionInfo"]

\* tbl with column k generated, or in the state a schema change leaves it in.
WithGenerated(tbl, k) == [tbl EXCEPT !.Columns[k].Generated = TRUE]
WithState(tbl, k, state) == [tbl EXCEPT !.Columns[k].State = state]

ExcludeBases ==
    {HandleTable(FALSE, <<IndexInfo("ub", <<"b">>)>>),
     RowIdTable(<<IndexInfo("ub", <<"b">>)>>),
     RowIdTable(<<PrefixIndex("pb", <<"b">>)>>),
     RowIdTable(<<PrefixIndex("pb", <<"b">>), IndexInfo("ub", <<"b">>)>>),
     HandleTable(FALSE, <<PrefixIndex("pbc", <<"b", "c">>)>>)}

ExcludeTables ==
    LET flawed == ExcludeBases
                    \cup {WithGenerated(t, k) : t \in ExcludeBases, k \in 1..3}
                    \cup {WithState(t, k, "write only") : t \in ExcludeBases, k \in 1..3}
    IN  flawed \cup {[t EXCEPT !.Partition = PartitionInfo] : t \in flawed}

\* a = 1, b = 2, 2 = b AND c = 3, c = 3, b IN (1, 2).
ExcludeWheres ==
    {Eq(Col("a"), Lit(1)), Eq(Col("b"), Lit(2)), And(Eq(Lit(2), Col("b")), Eq(Col("c"), Lit(3))),
     Eq(Col("c"), Lit(3)), PatternInExpr(Col("b"), <<Lit(1), Lit(2)>>, FALSE)}

ExcludeNodes ==
    LET froms == {SingleTable("", "", t) : t \in ExcludeTables} IN
    {SelectStmt(f, <<WildCardField("")>>, w) : f \in froms, w \in ExcludeWheres}
        \cup {UpdateStmt(f, SetB, w) : f \in froms, w \in ExcludeWheres}
        \cup {DeleteStmt(f, w) : f \in froms, w \in ExcludeWheres}

InitExclude == InitOf(ExcludeNodes, {Session("db1"), [Session("db1") EXCEPT !.pm = Nil]})
SpecExclude == InitExclude /\ [][Next]_vars

-----------------------------------------------------------------------------
(* C6: what bars a table, or an index, from the fast path. *)

\* The unique public indexes of the table whose columns are exactly those of
\* the conjunction, by position.
Matching(n) ==
    {i \in DOMAIN TableOf(n).Indices :
        /\ TableOf(n).Indices[i].Unique
        /\ TableOf(n).Indices[i].State = "public"
        /\ Covers(n, TableOf(n).Indices[i])}

\* The predicate is matched by prefix indexes alone: by no other index, and
\* not by the integer primary key.
OnlyPrefixMatches(n) ==
    /\ Matching(n) # {}
    /\ \A i \in Matching(n) : TableOf(n).Indices[i].HasPrefixIndex
    /\ ~OnKeyAlone(n)

\* C6: no plan for a table with partition metadata or with a column that is
\* generated or not public; no lookup, batch children included, is keyed by a
\* prefix index; and no plan when only prefix indexes match the predicate.
C6_Exclusions ==
    (pc = "done" /\ OneTable(node)) =>
        /\ ~Eligible(TableOf(node)) => plan = Nil
        /\ \A p \in LookupsOf(plan) : p.IndexInfo # Nil => ~p.IndexInfo.HasPrefixIndex
        /\ OnlyPrefixMatches(node) => plan = Nil

\* An UPDATE on an eligible table whose predicate only a prefix index matches
\* got no plan.
C6_Witness ==
    /\ pc = "done"
    /\ node.type = "UpdateStmt"
    /\ Eligible(TableOf(node))
    /\ OnlyPrefixMatches(node)
    /\ plan = Nil

-----------------------------------------------------------------------------
(* UPDATE and DELETE: the key at each column position, tables without an   *)
(* integer key, aliases, schema qualifiers.                                  *)

\* create table t (a int, b int, c int) with column k the integer primary key.
KeyAt(k) ==
    TableInfo(TRUE, [i \in 1..3 |-> [PlainColumns[i] EXCEPT !.PriKey = (i = k)]], <<>>)

MutationTables ==
    {KeyAt(k) : k \in 1..3}
        \cup {RowIdTable(<<IndexInfo("ub", <<"b">>)>>),
              RowIdTable(<<IndexInfo("uab", <<"a", "b">>)>>)}

MutationWheres ==
    {Eq(Col(n), Lit(1)) : n \in {"a", "b", "c"}}
        \cup {And(Eq(Col("a"), Lit(1)), Eq(Col("b"), Lit(2))), Eq(Col("a"), Lit(MaxUint + 1)),
              Eq(Col("b"), Lit(MaxUint + 1))}

\* SET b = 5;  SET c = a, b = ?;  SET nosuch = 1.
MutationLists ==
    {SetB,
     <<Assignment(Col("c"), Col("a")), Assignment(Col("b"), ParamMarkerExpr(IntDatum(1), 0))>>,
     <<Assignment(Col("nosuch"), Lit(1))>>}

MutationNodes ==
    LET froms == {SingleTable(q, x, t) :
                    q \in {"", "db2"}, x \in {"", "x"}, t \in MutationTables}
    IN  {UpdateStmt(f, l, w) : f \in froms, l \in MutationLists, w \in MutationWheres}
            \cup {[DeleteStmt(f, w) EXCEPT !.IsMultiTable = m] :
                    f \in froms, w \in MutationWheres, m \in BOOLEAN}
            \cup {SelectStmt(f, <<WildCardField("")>>, w) : f \in froms, w \in MutationWheres}

MutationCtxs ==
    {[Session("db1") EXCEPT !.IsPessimistic = p, !.pm = m] :
        p \in BOOLEAN,
        m \in {Nil, PrivilegeManager({}),
               PrivilegeManager({[db |-> "db1", table |-> "t", priv |-> "UpdatePriv"]})}}

InitMutation == InitOf(MutationNodes, MutationCtxs)
SpecMutation == InitMutation /\ [][Next]_vars

-----------------------------------------------------------------------------
(* C7: the handle column of a mutation plan. *)

\* The lookup plan tryPointGetPlan builds for the UPDATE or DELETE.
MutationLookup == tryPointGetPlan(CalledWith, MutationSelect(node)).fp

\* The case of C7: a single-table UPDATE or DELETE that got its mutation plan.
C7Case ==
    /\ pc = "done"
    /\ node.type \in {"UpdateStmt", "DeleteStmt"}
    /\ OneTable(node)
    /\ plan.type \in {"Update", "Delete"}

\* The schema column of lookup plan p at 0-based position ord.
ColumnAt(p, ord) == p.schema.Columns[ord + 1]

\* C7: the data source of the mutation plan is the lookup plan of the
\* statement; 0 <= HandleOrdinal < End = the length of its schema; the column
\* at HandleOrdinal is the integer primary key when that is the handle, and
\* otherwise the hidden handle column, appended as the last column.
C7_HandleOrdinal ==
    C7Case =>
        LET lookup == plan.SelectPlan
            pos == plan.TblColPosInfos[1]
            tbl == TableOf(node)
        IN
        /\ plan.type = (IF node.type = "UpdateStmt" THEN "Update" ELSE "Delete")
        /\ lookup.type = "PointGetPlan"
        /\ MutationLookup # Nil
        /\ [lookup EXCEPT !.schema = MutationLookup.schema, !.Lock = FALSE] = MutationLookup
        /\ Len(plan.TblColPosInfos) = 1
        /\ pos.TblID = tbl.ID
        /\ pos.Start = 0
        /\ pos.End = Len(lookup.schema.Columns)
        /\ 0 <= pos.HandleOrdinal /\ pos.HandleOrdinal < pos.End
        /\ ColumnAt(lookup, pos.HandleOrdinal).Index = pos.HandleOrdinal
        /\ IF HasIntKey(tbl)
           THEN /\ ColumnAt(lookup, pos.HandleOrdinal).ID = KeyColumn(tbl).ID
                /\ ColumnAt(lookup, pos.HandleOrdinal).ColName = KeyColumn(tbl).Name
                /\ lookup.schema = MutationLookup.schema
           ELSE /\ ColumnAt(lookup, pos.HandleOrdinal).ColName = ExtraHandleName
                /\ ColumnAt(lookup, pos.HandleOrdinal).ID = ExtraHandleColInfo.ID
                /\ pos.HandleOrdinal = pos.End - 1
                /\ lookup.schema.Columns =
                      Append(MutationLookup.schema.Columns, ColumnAt(lookup, pos.HandleOrdinal))

\* A DELETE through a unique index, on a table without an integer key, got its
\* plan with the hidden handle column last.
C7_Witness ==
    /\ C7Case
    /\ node.type = "DeleteStmt"
    /\ ~HasIntKey(TableOf(node))
    /\ plan.TblColPosInfos[1].HandleOrdinal = Len(TableOf(node).Columns)
    /\ plan.TblColPosInfos[1].End = Len(TableOf(node).Columns) + 1

-----------------------------------------------------------------------------
(* Privileges: every set of denied requests, the statement's table in the   *)
(* current database or qualified with another.                               *)

Databases == {"db1", "db2"}
Privileges == {"SelectPriv", "UpdatePriv", "DeletePriv"}

PrivManagers ==
    {Nil} \cup {PrivilegeManager(d) :
                    d \in SUBSET {[db |-> db, table |-> "t", priv |-> pr] :
                                    db \in Databases, pr \in Privileges}}

\* a = 1, b = 2, a = (a value past every key), c = 3, a IN (1, 2).
PrivWheres ==
    {Eq(Col("a"), Lit(1)), Eq(Col("b"), Lit(2)), Eq(Col("a"), Lit(MaxUint + 1)),
     Eq(Col("c"), Lit(3)), PatternInExpr(Col("a"), <<Lit(1), Lit(2)>>, FALSE)}

PrivNodes ==
    LET froms == {SingleTable(q, "", t) :
                    q \in {""} \cup Databases,
                    t \in {HandleTable(FALSE, <<>>), RowIdTable(<<IndexInfo("ub", <<"b">>)>>)}}
    IN  {SelectStmt(f, <<WildCardField("")>>, w) : f \in froms, w \in PrivWheres}
            \cup {UpdateStmt(f, SetB, w) : f \in froms, w \in PrivWheres}
            \cup {DeleteStmt(f, w) : f \in froms, w \in PrivWheres}

PrivCtxs == {[Session(db) EXCEPT !.pm = m] : db \in Databases, m \in PrivManagers}

InitPriv == InitOf(PrivNodes, PrivCtxs)
SpecPriv == InitPriv /\ [][Next]_vars

-----------------------------------------------------------------------------
(* C9, C10: the privilege verification. *)

\* The collaborator denied request k of the call.
Denied(k) ==
    ~RequestVerification(ctx.pm, verified[k].db, verified[k].table, verified[k].priv)

\* C9: a call in which the privilege collaborator denied a request returns no
\* plan, whatever was built (a lookup, an empty result, a batch); a plan that
\* is returned had each required privilege kind requested, and granted.
C9_DenialDiscards ==
    (pc = "done" /\ ctx.pm # Nil) =>
        /\ (\E k \in DOMAIN verified : Denied(k)) => plan = Nil
        /\ plan # Nil =>
              /\ {verified[k].priv : k \in DOMAIN verified} = RequiredPrivs(node)
              /\ \A k \in DOMAIN verified : ~Denied(k)

\* An UPDATE whose key value overflows (an empty result was built), with
\* SELECT granted and UPDATE denied, got no plan.
C9_Witness ==
    /\ pc = "done"
    /\ node.type = "UpdateStmt"
    /\ node.Where = Eq(Col("a"), Lit(MaxUint + 1))
    /\ HasIntKey(TableOf(node))
    /\ Len(verified) = 2
    /\ ~Denied(1) /\ Denied(2)
    /\ verified[2].priv = "UpdatePriv"
    /\ plan = Nil

\* The database a statement targets: its table's schema qualifier, or the
\* session's current database when there is none.
TargetDB(c, n) == IF TableNameOf(n).Schema = "" THEN c.CurrentDB ELSE TableNameOf(n).Schema

\* C10 as stated: every verification requested names the statement's target
\* database (the DBName of the plan), its table and a required privilege.
C10_TargetDatabase ==
    (pc = "done" /\ OneTable(node)) =>
        /\ \A p \in LookupsOf(plan) : p.DBName = TargetDB(ctx, node)
        /\ \A k \in DOMAIN verified :
              /\ verified[k].db = TargetDB(ctx, node)
              /\ verified[k].table = TableOf(node).Name
              /\ verified[k].priv \in RequiredPrivs(node)

-----------------------------------------------------------------------------
(* C11: the outcomes of a call. *)

\* The kinds of plan the fast path hands out.
FullyFormed(p) ==
    p.type \in {"PointGetPlan", "PhysicalUnionAll", "Update", "Delete", "PhysicalTableDual"}

\* C11 as stated: every call ends with a fully formed plan or with no plan; no
\* decision point, the empty-result candidate of a batch included, raises an
\* error or crashes.
C11_PlanOrAbsent == pc = "done" => (plan = Nil \/ FullyFormed(plan))

-----------------------------------------------------------------------------
(* Statement shapes: joins, derived tables, aggregates, GROUP BY, ORDER BY. *)

\* The table source  t [AS asName].
TableSource(asName, tbl) ==
    [type |-> "TableSource", AsName |-> asName,
     Source |-> [type |-> "TableName", Schema |-> "", Name |-> tbl.Name, TableInfo |-> tbl]]

\* FROM left JOIN right (right Nil: FROM left).
JoinOf(left, right) ==
    [type |-> "TableRefsClause",
     TableRefs |-> [type |-> "Join", Left |-> left, Right |-> right]]

\* count(*), as a select field.
AggregateField == ExprField([type |-> "AggregateFuncExpr", F |-> "count"], "")

ShapeTable == HandleTable(FALSE, <<IndexInfo("ub", <<"b">>)>>)

\* FROM t;  FROM t JOIN t AS u;  FROM (t JOIN t AS u);  FROM (SELECT ...) AS d.
ShapeFroms ==
    {SingleTable("", "", ShapeTable),
     JoinOf(TableSource("", ShapeTable), TableSource("u", ShapeTable)),
     JoinOf([type |-> "Join", Left |-> TableSource("", ShapeTable),
             Right |-> TableSource("u", ShapeTable)], Nil),
     JoinOf([type |-> "TableSource", AsName |-> "d", Source |-> [type |-> "SelectStmt"]], Nil)}

\* a = 1, b = 2, a = 1 AND b = 2 (no key), a IN (1, 2).
ShapeWheres ==
    {Eq(Col("a"), Lit(1)), Eq(Col("b"), Lit(2)), And(Eq(Col("a"), Lit(1)), Eq(Col("b"), Lit(2))),
     PatternInExpr(Col("a"), <<Lit(1), Lit(2)>>, FALSE)}

ShapeNodes ==
    {[SelectStmt(f, fs, w) EXCEPT !.OrderBy = o, !.GroupBy = g] :
        f \in ShapeFroms, w \in ShapeWheres, o \in {Nil, Present}, g \in {Nil, Present},
        fs \in {<<WildCardField("")>>, <<ExprField(Col("b"), "")>>, <<AggregateField>>,
                <<ExprField(Col("b"), ""), AggregateField>>}}
        \cup {[UpdateStmt(f, SetB, w) EXCEPT !.Order = o] :
                f \in ShapeFroms, w \in ShapeWheres, o \in {Nil, Present}}
        \cup {[DeleteStmt(f, w) EXCEPT !.Order = o, !.IsMultiTable = m] :
                f \in ShapeFroms, w \in ShapeWheres, o \in {Nil, Present}, m \in BOOLEAN}

InitShape == InitOf(ShapeNodes, {Session("db1"), [Session("db1") EXCEPT !.pm = Nil]})
SpecShape == InitShape /\ [][Next]_vars

-----------------------------------------------------------------------------
(* C12: joins, aggregation, sorting. *)

\* The statement reads more than one plain table: a join, a derived table, a
\* multi-table DELETE.
MultiTable(n) == ~OneTable(n)

\* The field list of a SELECT holds an aggregate.
Aggregates(n) ==
    n.type = "SelectStmt" /\ \E k \in DOMAIN n.Fields :
        n.Fields[k].Expr # Nil /\ n.Fields[k].Expr.type = "AggregateFuncExpr"

Grouped(n) == n.type = "SelectStmt" /\ n.GroupBy # Nil
Sorted(n) == IF n.type = "SelectStmt" THEN n.OrderBy # Nil ELSE n.Order # Nil

\* The statement without its GROUP BY and ORDER BY.
Ungrouped(n) ==
    IF n.type = "SelectStmt" THEN [n EXCEPT !.OrderBy = Nil, !.GroupBy = Nil]
    ELSE [n EXCEPT !.Order = Nil]

\* C12 as stated: a statement with a multi-table FROM or join, an aggregate,
\* a GROUP BY or an ORDER BY gets no plan.
C12_AsStated ==
    (pc = "done" /\ (MultiTable(node) \/ Aggregates(node) \/ Grouped(node) \/ Sorted(node)))
        => plan = Nil

\* C12, amended: a statement with a multi-table FROM or join, or with an
\* aggregate in its field list, gets no plan; GROUP BY and ORDER BY bar only
\* the batch of an IN list, and otherwise leave the plan the statement gets
\* without them.
C12_JoinsAndAggregates ==
    pc = "done" =>
        /\ (MultiTable(node) \/ Aggregates(node)) => plan = Nil
        /\ ((Grouped(node) \/ Sorted(node)) /\ node.Where.type = "PatternInExpr") => plan = Nil
        /\ node.Where.type # "PatternInExpr" =>
              plan = TryFastPlan(CalledWith, Ungrouped(node)).plan

\* A SELECT with GROUP BY and ORDER BY got its point lookup; seen on the
\* rejected side too in the same family (joins, aggregates).
C12_Witness ==
    /\ pc = "done"
    /\ Grouped(node) /\ Sorted(node)
    /\ ~MultiTable(node) /\ ~Aggregates(node)
    /\ plan.type = "PointGetPlan"

-----------------------------------------------------------------------------
(* Indexes of every kind: unique or not, public or not, on a prefix or not. *)

\* unique (b); key (b); unique (b) being added; unique (b(1)); unique (b, c).
FormIndexes ==
    {IndexInfo("ub", <<"b">>),
     [IndexInfo("kb", <<"b">>) EXCEPT !.Unique = FALSE],
     [IndexInfo("wb", <<"b">>) EXCEPT !.State = "write only"],
     PrefixIndex("pb", <<"b">>),
     IndexInfo("ubc", <<"b", "c">>)}

FormTables ==
    {RowIdTable(<<i, j>>) : i, j \in FormIndexes}
        \cup {HandleTable(u, <<i>>) : u \in BOOLEAN, i \in FormIndexes}

\* Equalities on the key (in range, past it, a parameter), on b, on b and c,
\* on c; IN lists on a and on b.
FormWheres ==
    {Eq(Col("a"), Lit(1)), Eq(Col("a"), Lit(MaxUint + 1)),
     Eq(Col("a"), ParamMarkerExpr(IntDatum(MaxInt), 0)),
     Eq(Col("b"), Lit(2)), Eq(ParamMarkerExpr(IntDatum(1), 0), Col("b")),
     And(Eq(Col("c"), Lit(3)), Eq(Col("b"), ParamMarkerExpr(IntDatum(1), 0))),
     Eq(Col("c"), Lit(3)),
     PatternInExpr(Col("a"), <<Lit(1), Lit(2)>>, FALSE),
     PatternInExpr(Col("b"), <<Lit(1), Lit(2)>>, FALSE)}

FormNodes ==
    LET froms == {SingleTable("", "", t) : t \in FormTables} IN
    {SelectStmt(f, <<WildCardField("")>>, w) : f \in froms, w \in FormWheres}
        \cup {UpdateStmt(f, SetB, w) : f \in froms, w \in FormWheres}
        \cup {DeleteStmt(f, w) : f \in froms, w \in FormWheres}

InitForm == InitOf(FormNodes, {Session("db1")})
SpecForm == InitForm /\ [][Next]_vars

-----------------------------------------------------------------------------
(* C13: the two forms of a lookup plan. *)

\* The handle form: no index, no index values.
HandleForm(p) ==
    /\ p.IndexInfo = Nil
    /\ p.IndexValues = <<>>
    /\ p.IndexValueParams = <<>>

\* The index form over table tbl: an index of tbl that is unique, public and
\* without prefix columns, one value and one parameter slot for each of its
\* columns, and no handle.
IndexForm(p, tbl) ==
    IF p.IndexInfo = Nil THEN FALSE
    ELSE /\ \E i \in DOMAIN tbl.Indices : tbl.Indices[i] = p.IndexInfo
         /\ Usable(p.IndexInfo)
         /\ Len(p.IndexValues) = Len(p.IndexInfo.Columns)
         /\ Len(p.IndexValueParams) = Len(p.IndexInfo.Columns)
         /\ p.Handle = 0
         /\ p.HandleParam = Nil
         /\ ~p.UnsignedHandle

\* C13: every lookup plan handed out that is not an empty result (alone, as
\* the source of an UPDATE or DELETE, as a child of a batch) is in exactly one
\* of the handle form and the index form.
C13_OneForm ==
    pc = "done" =>
        \A p \in LookupsOf(plan) :
            ~p.IsTableDual => (HandleForm(p) <=> ~IndexForm(p, p.TblInfo))

\* An index-form lookup with a parameter was planned on a table whose first
\* index on the column is not usable.
C13_Witness ==
    /\ pc = "done"
    /\ plan.type = "PointGetPlan"
    /\ IndexForm(plan, TableOf(node))
    /\ ~Usable(TableOf(node).Indices[1])
    /\ \E k \in DOMAIN plan.IndexValueParams : plan.IndexValueParams[k] # Nil

-----------------------------------------------------------------------------
(* C14: the children of a batch. *)

\* The values of one element of an IN list: of a row, or of a single value.
TupleOf(row) ==
    IF row.type = "RowExpr" THEN [k \in DOMAIN row.Values |-> row.Values[k].Datum]
    ELSE <<row.Datum>>

\* The distinct value tuples of the IN list of n.
DistinctTuples(n) == {TupleOf(n.Where.List[k]) : k \in DOMAIN n.Where.List}

\* C14 as stated: a batch plan has as many children as its IN list has
\* distinct value tuples.
C14_DistinctChildren ==
    (pc = "done" /\ plan.type = "PhysicalUnionAll") =>
        Len(plan.children) = Cardinality(DistinctTuples(node))

-----------------------------------------------------------------------------
(* C15: what a call writes. *)

TableEntry == <<[DB |-> ctx.CurrentDB, Table |-> TableOf(node).Name]>>

-----------------------------------------------------------------------------
(* WHERE clauses of every shape: trees of AND over good and bad leaves.      *)

\* Most leaves of a tree of ANDs.
MaxConjuncts == 2

\* a = 1, 1 = a, b = ?, t.a = 1, x.b = 2  (t and x: the table and an alias).
\* a = NULL, a = b, a = f(), a > 1, 1 = 1, NOT a = 1, a = 1 OR b = 2.
WhereLeaves ==
    {Eq(Col("a"), Lit(1)), Eq(Lit(1), Col("a")), Eq(Col("b"), ParamMarkerExpr(IntDatum(2), 0)),
     Eq(ColumnNameExpr("t", "a"), Lit(1)), Eq(ColumnNameExpr("x", "b"), Lit(2)),
     Eq(Col("a"), ValueExpr(NullDatum)), Eq(Col("a"), Col("b")),
     Eq(Col("a"), [type |-> "FuncCallExpr"]), BinaryOperationExpr("GT", Col("a"), Lit(1)),
     Eq(Lit(1), Lit(1)), [type |-> "UnaryOperationExpr", Op |-> "Not", V |-> Eq(Col("a"), Lit(1))],
     BinaryOperationExpr("LogicOr", Eq(Col("a"), Lit(1)), Eq(Col("b"), Lit(2)))}

\* The trees of ANDs with exactly n leaves.
RECURSIVE WhereTrees(_)
WhereTrees(n) ==
    IF n = 1 THEN WhereLeaves
    ELSE UNION {{And(l, r) : l \in WhereTrees(k), r \in WhereTrees(n - k)} : k \in 1..(n - 1)}

\* No WHERE, and the trees of at most MaxConjuncts leaves.
WhereShapes == {Nil} \cup UNION {WhereTrees(n) : n \in 1..MaxConjuncts}

WhereNodes ==
    LET froms == {SingleTable("", x, HandleTable(FALSE, <<IndexInfo("ub", <<"b">>)>>)) :
                    x \in {"", "x"}}
    IN  {SelectStmt(f, <<WildCardField("")>>, w) : f \in froms, w \in WhereShapes}
            \cup {UpdateStmt(f, SetB, w) : f \in froms, w \in WhereShapes}
            \cup {DeleteStmt(f, w) : f \in froms, w \in WhereShapes}

InitWhere == InitOf(WhereNodes, {Session("db1")})
SpecWhere == InitWhere /\ [][Next]_vars

-----------------------------------------------------------------------------
(* C16: the predicate extractor. *)

\* e is a tree of ANDs whose leaves are equalities of a column of the table
\* known as alias (unqualified, or qualified with alias) with a non-NULL
\* literal or parameter.
RECURSIVE AndsOfEqualities(_, _)
AndsOfEqualities(e, alias) ==
    IF e.type # "BinaryOperationExpr" THEN FALSE
    ELSE IF e.Op = "LogicAnd" THEN AndsOfEqualities(e.L, alias) /\ AndsOfEqualities(e.R, alias)
    ELSE /\ IsEquality(e)
         /\ EqColumn(e).Table \in {"", alias}

\* The pair an equality stands for.
PairOf(e) ==
    nameValuePair(EqColumn(e).Name, EqValue(e).Datum,
                  IF EqValue(e).type = "ParamMarkerExpr" THEN EqValue(e) ELSE Nil)

\* What the extractor returns for the WHERE of the statement.
Extracted == getNameValuePairs(<<>>, AliasOf(node), node.Where)

\* C16: the extractor returns a list exactly for a tree of ANDs of such
\* equalities, and then the pairs of the leaves, left to right; for any other
\* WHERE (none, OR, NOT, another comparison, a column or an expression or
\* NULL as the value, a column of another table) the statement gets no plan,
\* whatever the other conjuncts are.
C16_Extractor ==
    (pc = "done" /\ OneTable(node)) =>
        /\ (Extracted # Nil) <=> AndsOfEqualities(node.Where, AliasOf(node))
        /\ Extracted # Nil =>
              Extracted.elems = [k \in DOMAIN Conjuncts(node.Where) |->
                                    PairOf(Conjuncts(node.Where)[k])]
        /\ ~AndsOfEqualities(node.Where, AliasOf(node)) => plan = Nil

\* a = 1 on the integer key, ANDed with a leaf that is no such equality, got
\* no plan, though a = 1 alone gets one.
C16_Witness ==
    /\ pc = "done"
    /\ node.Where.type = "BinaryOperationExpr"
    /\ node.Where.Op = "LogicAnd"
    /\ node.Where.L = Eq(Col("a"), Lit(1))
    /\ ~AndsOfEqualities(node.Where.R, AliasOf(node))
    /\ TryFastPlan(CalledWith, [node EXCEPT !.Where = node.Where.L]).plan # Nil
    /\ plan = Nil

-----------------------------------------------------------------------------
(* Conjunctions that name a column twice, against keys of one, two and      *)
(* three columns.                                                            *)

DupTables ==
    {HandleTable(FALSE, <<IndexInfo("ab", <<"a", "b">>), IndexInfo("cab", <<"c", "a", "b">>)>>),
     HandleTable(TRUE, <<IndexInfo("b", <<"b">>)>>),
     RowIdTable(<<IndexInfo("a", <<"a">>), IndexInfo("ab", <<"a", "b">>)>>),
     RowIdTable(<<IndexInfo("b", <<"b">>), IndexInfo("ba", <<"b", "a">>),
                  IndexInfo("cab", <<"c", "a", "b">>)>>),
     RowIdTable(<<IndexInfo("abc", <<"a", "b", "c">>)>>)}

\* The equalities alone, by two and by three, in both groupings.
DupWheres ==
    IndexLeaves
        \cup {And(x, y) : x, y \in IndexLeaves}
        \cup {And(And(x, y), z) : x, y, z \in IndexLeaves}
        \cup {And(x, And(y, z)) : x, y, z \in IndexLeaves}

DupNodes ==
    LET froms == {SingleTable("", "", t) : t \in DupTables} IN
    {SelectStmt(f, <<WildCardField("")>>, w) : f \in froms, w \in DupWheres}
        \cup {UpdateStmt(f, SetB, w) : f \in froms, w \in DupWheres}
        \cup {DeleteStmt(f, w) : f \in froms, w \in DupWheres}

InitDup == InitOf(DupNodes, {Session("db1")})
SpecDup == InitDup /\ [][Next]_vars

-----------------------------------------------------------------------------
(* C17: a column named twice. *)

\* The column names of the conjuncts of the WHERE of n.
ConjunctNames(n) == {EqColumn(Conjuncts(n.Where)[k]).Name : k \in DOMAIN Conjuncts(n.Where)}

\* Two conjuncts of the WHERE of n are on the same column.
RepeatsColumn(n) == Cardinality(ConjunctNames(n)) < Len(Conjuncts(n.Where))

\* C17: when a conjunction of equalities names a column twice, the handle
\* path does not apply, no index of the table matches the pairs, and no plan
\* is returned.
C17_RepeatedColumn ==
    (pc = "done" /\ OneTable(node) /\ IsConjunction(node) /\ RepeatsColumn(node)) =>
        /\ Extracted # Nil
        /\ Len(Extracted.elems) # 1
        /\ \A i \in DOMAIN TableOf(node).Indices :
              getIndexValues(TableOf(node).Indices[i], Extracted.elems) = Nil
        /\ plan = Nil

\* Three conjuncts on two columns, which are the columns of a unique index of
\* the table, got no plan.
C17_Witness ==
    /\ pc = "done"
    /\ IsConjunction(node)
    /\ Len(Conjuncts(node.Where)) = 3
    /\ \E i \in DOMAIN TableOf(node).Indices :
          Range(TableOf(node).Indices[i].Columns) = ConjunctNames(node)
    /\ RepeatsColumn(node)
    /\ plan = Nil

=============================================================================
